---- MODULE Spec2Model ----
(***************************************************************************)
(* Model of the domain checker bot: the rate-limit guard and TLD cache on  *)
(* the key-value store (lib/kv.ts), the provider clients (lib/domainr.ts,  *)
(* lib/porkbun.ts, the Cloudflare client) and the retry wrapper.           *)
(*                                                                         *)
(* Conventions                                                             *)
(*  - An optional value (JS null / undefined / absent key) is the empty    *)
(*    tuple, a present value x is the one-element tuple <<x>>.             *)
(*  - Times are milliseconds, as in the source.                            *)
(*  - A dot-separated name (a domain, a TLD) is the sequence of its        *)
(*    labels: "example.co.uk" is <<"example", "co", "uk">>, so that        *)
(*    split(".") and join(".") are computed, not assumed.                  *)
(*  - A key-value entry is visible exactly until its expireIn has elapsed. *)
(***************************************************************************)
EXTENDS Integers, Sequences, FiniteSets, TLC

VARIABLES
  now,          \* Date.now()
  ticks,        \* number of clock advances taken so far (bounds the clock)
  kvRateLimit,  \* kv entries ["rate_limit", provider]
  kvTlds,       \* kv entries ["tlds", provider]
  api,          \* the last direct call of an exported function and what it returned
  streak,       \* per provider: recordFailure calls since the last recordSuccess
  lapsed,       \* per provider: its rate-limit entry expired since the last recordSuccess
  wiped,        \* per provider: the failure count the last recordSuccess cleared,
                \* -1 once a failure was recorded after it (and initially)
  lastSet,      \* per provider: the list and time of the last setCachedTLDs
  inv,          \* per invocation of checkAvailability: its position and locals
  started,      \* number of invocations started so far
  hook          \* handleWebhook: the update it handles, its position, what it sent

vars == <<now, ticks, kvRateLimit, kvTlds, api, streak, lapsed, wiped, lastSet,
          inv, started, hook>>

(* the observations of the directly called store helpers *)
ghosts == <<api, streak, lapsed, wiped, lastSet>>

-----------------------------------------------------------------------------
(* Bounds of the model *)

MaxTicks == 2
MaxFailures == 10
MaxOtherFailures == 2
MaxCalls == 2

(* Clock advances the model takes: less than the first backoff, the        *)
(* maximum backoff, the expiry of a rate-limit entry, the expiry of a TLD  *)
(* cache entry.                                                            *)
GuardDeltas == {500, 300000, 600000}
CacheDeltas == {500, 86400000}
ClientDeltas == {500, 600000, 86400000}
RetryDeltas == {500, 600000}

-----------------------------------------------------------------------------
(* Optional values *)

None == <<>>
Some(x) == <<x>>
Val(o) == o[1]

Min(a, b) == IF a < b THEN a ELSE b
Max(a, b) == IF a > b THEN a ELSE b

RECURSIVE Pow(_, _)
Pow(b, e) == IF e = 0 THEN 1 ELSE b * Pow(b, e - 1)

-----------------------------------------------------------------------------
(* lib/kv.ts: rate limit tracking *)

Providers == {"domainr", "porkbun", "cloudflare"}

INITIAL_BACKOFF_MS == 1000
MAX_BACKOFF_MS == 300000
BACKOFF_MULTIPLIER == 2

(* an expiry shorter than the longest backoff *)
RateLimitExpireInShort == MAX_BACKOFF_MS \div 2

(* kv.set(..., { expireIn: MAX_BACKOFF_MS * 2 }) *)
RateLimitExpireIn == MAX_BACKOFF_MS * 2

(* An entry of the store: the value and the time it stops being visible. *)
KvEntry(value, expireAt) == [value |-> value, expireAt |-> expireAt]

(* The store once the clock shows t: expired entries are gone. *)
KvExpire(store, t) ==
  [k \in DOMAIN store |->
     IF store[k] # None /\ Val(store[k]).expireAt <= t THEN None ELSE store[k]]

(* getRateLimitState: result.value of kv.get *)
getRateLimitState(store, provider) ==
  IF store[provider] = None THEN None ELSE Some(Val(store[provider]).value)

backoffDelayUncapped(failureCount) ==
  INITIAL_BACKOFF_MS * Pow(BACKOFF_MULTIPLIER, failureCount - 1)

(* Math.min(INITIAL_BACKOFF_MS * Math.pow(BACKOFF_MULTIPLIER, failureCount - 1), MAX_BACKOFF_MS) *)
backoffDelay(failureCount) ==
  Min(INITIAL_BACKOFF_MS * Pow(BACKOFF_MULTIPLIER, failureCount - 1), MAX_BACKOFF_MS)

(* recordFailure adding the delay to the nextRetryAfter it read *)
newStateFromStoredRetry(currentState, t) ==
  LET failureCount == (IF currentState = None THEN 0 ELSE Val(currentState).failureCount) + 1
      from == IF currentState = None THEN t ELSE Max(t, Val(currentState).nextRetryAfter)
  IN  [failureCount    |-> failureCount,
       nextRetryAfter  |-> from + backoffDelay(failureCount),
       lastFailureTime |-> t]

(* The newState recordFailure builds from the state it read and its Date.now() *)
newState(currentState, t) ==
  LET failureCount == (IF currentState = None THEN 0 ELSE Val(currentState).failureCount) + 1
  IN  [failureCount    |-> failureCount,
       nextRetryAfter  |-> t + backoffDelay(failureCount),
       lastFailureTime |-> t]

(* recordFailure run without interruption: the store it leaves *)
recordFailure(store, provider, t) ==
  [store EXCEPT ![provider] =
     Some(KvEntry(newState(getRateLimitState(store, provider), t), t + RateLimitExpireIn))]

recordSuccessKeepsEntry(store, provider) == store

(* recordSuccess deleting the entries of all providers *)
recordSuccessClearsAll(store, provider) == [q \in DOMAIN store |-> None]

(* recordSuccess: kv.delete *)
recordSuccess(store, provider) == [store EXCEPT ![provider] = None]

getWaitTimeUnclamped(state, t) ==
  IF state = None THEN 0 ELSE Val(state).nextRetryAfter - t

(* getWaitTime on the state it read, at its Date.now() *)
getWaitTime(state, t) ==
  IF state = None THEN 0 ELSE Max(0, Val(state).nextRetryAfter - t)

-----------------------------------------------------------------------------
(* TLD cache helpers of lib/kv.ts (imported by the Porkbun and Cloudflare  *)
(* clients): a list stored under ["tlds", provider] for 24 hours.          *)

TLD_CACHE_TTL_MS == 86400000

getCachedTLDs(store, provider) ==
  IF store[provider] = None THEN None ELSE Some(Val(store[provider]).value)

setCachedTLDsMerging(store, provider, tlds, t) ==
  [store EXCEPT ![provider] =
     Some(KvEntry((IF store[provider] = None THEN <<>> ELSE Val(store[provider]).value) \o tlds,
                  t + TLD_CACHE_TTL_MS))]

setCachedTLDs(store, provider, tlds, t) ==
  [store EXCEPT ![provider] = Some(KvEntry(tlds, t + TLD_CACHE_TTL_MS))]

(* TLD lists a listing endpoint answers with *)
TldLists ==
  { <<>>,
    << <<"com">> >>,
    << <<"com">>, <<"co", "uk">> >>,
    << <<"net">>, <<"com">> >> }

-----------------------------------------------------------------------------
(* JavaScript values the clients handle *)

JsTrue == "true"
JsFalse == "false"
JsUndefined == "undefined"
(* a member of Object.prototype read through a plain object: truthy, not a boolean *)
JsInherited == "inherited"

(* An error message: fixed text and, where the source interpolates, the    *)
(* interpolated tokens.                                                    *)
Err(msg, arg) == [msg |-> msg, arg |-> arg]

(* lib/types.ts: DomainCheckResult and PricingInfo *)
Result(domain, available, provider, pricing, error) ==
  [domain |-> domain, available |-> available, provider |-> provider,
   pricing |-> pricing, error |-> error]

PricingInfo(registration, renewal, firstYear, currency) ==
  [registration |-> registration, renewal |-> renewal, firstYear |-> firstYear,
   currency |-> currency]

(* What a call of checkAvailability ends with *)
Returned(result) == [outcome |-> "returned", result |-> result]
Threw(result) == [outcome |-> "threw", result |-> result]

-----------------------------------------------------------------------------
(* lib/domainr.ts: status resolution *)

(* A status string is a sequence of tokens: words and single whitespace    *)
(* characters. Two words are never adjacent (they would be one word).      *)
Space == " "
StatusWords == {"inactive", "active", "undelegated", "Active", "marketed", "constructor"}
StatusTokens == StatusWords \cup {Space}

toLowerCase(token) ==
  IF token = "Active" THEN "active"
  ELSE IF token = "Com" THEN "com"
  ELSE IF token = "Alice" THEN "alice"
  ELSE IF token = "Bob" THEN "bob"
  ELSE token

(* status.toLowerCase() *)
statusKey(status) == [k \in 1..Len(status) |-> toLowerCase(status[k])]

(* The own keys of STATUS_AVAILABILITY_MAP *)
STATUS_AVAILABILITY_MAP ==
  [key \in { <<"inactive">>, <<"undelegated">>, <<"undelegated", Space, "inactive">>,
             <<"active">>, <<"claimed">>, <<"parked">>, <<"premium">>, <<"reserved">>,
             <<"expiring">> } |->
     IF key \in { <<"inactive">>, <<"undelegated">>, <<"undelegated", Space, "inactive">> }
     THEN JsTrue ELSE JsFalse]

(* Lower-case property names every plain object inherits from Object.prototype *)
ObjectPrototypeKeys == { <<"constructor">>, <<"__proto__">> }

(* STATUS_AVAILABILITY_MAP[key]: a property read on an object literal *)
mapLookup(key) ==
  IF key \in DOMAIN STATUS_AVAILABILITY_MAP THEN STATUS_AVAILABILITY_MAP[key]
  ELSE IF key \in ObjectPrototypeKeys THEN JsInherited
  ELSE JsUndefined

(* key.split(/\s+/): the words between runs of whitespace; a leading or    *)
(* trailing run yields an empty first or last word.                        *)
RECURSIVE splitFrom(_, _, _, _)
splitFrom(key, k, word, words) ==
  IF k > Len(key) THEN Append(words, word)
  ELSE IF key[k] = Space
       THEN IF k > 1 /\ key[k - 1] = Space
            THEN splitFrom(key, k + 1, word, words)
            ELSE splitFrom(key, k + 1, <<>>, Append(words, word))
       ELSE splitFrom(key, k + 1, Append(word, key[k]), words)

split(key) == splitFrom(key, 1, <<>>, <<>>)

(* for (const word of statusWords) { if (MAP[word] !== undefined) { available = MAP[word]; break; } } *)
RECURSIVE firstResolvedFrom(_, _)
firstResolvedFrom(words, k) ==
  IF k > Len(words) THEN JsUndefined
  ELSE IF mapLookup(words[k]) # JsUndefined THEN mapLookup(words[k])
  ELSE firstResolvedFrom(words, k + 1)

(* available after the direct match and the per-word fallback *)
resolveStatus(status) ==
  LET key == statusKey(status)
  IN  IF mapLookup(key) # JsUndefined THEN mapLookup(key)
      ELSE firstResolvedFrom(split(key), 1)

(* a result that carries a price, which the Domainr API does not give *)
domainrStatusResultPriced(domain, status) ==
  Result(domain, resolveStatus(status), "domainr",
         Some(PricingInfo(1000, 1000, None, "USD")), None)

(* The result built from data.status[0].status *)
domainrStatusResult(domain, status) ==
  LET available == resolveStatus(status)
  IN  IF available = JsUndefined
      THEN Result(domain, JsFalse, "domainr", None, Some(Err("Unknown status: ", status)))
      ELSE Result(domain, available, "domainr", None, None)

(* checkAvailability without its catch: the error reaches the caller *)
domainrCatchRethrows(domain, e) == Threw(Result(domain, JsFalse, "domainr", None, Some(e)))

(* catch (error) of checkAvailability *)
domainrCatch(domain, e) == Returned(Result(domain, JsFalse, "domainr", None, Some(e)))

-----------------------------------------------------------------------------
(* lib/utils.ts: extractTLD *)

multiPartTLDs ==
  { <<"co", "uk">>, <<"co", "jp">>, <<"com", "au">>, <<"co", "nz">>, <<"co", "za">> }

(* extractTLD without the multi-part TLDs *)
extractTLDLastLabel(parts) == <<parts[Len(parts)]>>

(* parts = domain.split("."); the TLD is returned as its labels *)
extractTLD(parts) ==
  IF Len(parts) >= 3 /\ SubSeq(parts, Len(parts) - 1, Len(parts)) \in multiPartTLDs
  THEN SubSeq(parts, Len(parts) - 1, Len(parts))
  ELSE <<parts[Len(parts)]>>

(* Array.prototype.includes *)
includes(list, x) == \E k \in 1..Len(list) : list[k] = x

-----------------------------------------------------------------------------
(* What the upstream services answer. kind is                              *)
(*   "throw"        fetch rejects (network-level failure)                  *)
(*   "http"         a non-2xx status                                       *)
(*   "unparseable"  a 2xx status whose body is not JSON                    *)
(*   "error"        a parsed body carrying the provider's error status     *)
(*   "missing"      a parsed body without the expected data                *)
(*   "data"         a parsed body with the expected data                   *)

(* Domainr: the status of a response of /status; response.ok is 200..299 *)
DomainrStatuses == {"200", "429", "500"}
DomainrOutcomes == DomainrStatuses \cup {"throw"}
responseOk(status) == status = "200"

MaxStatusLen == 3

StatusStrings ==
  UNION { { st \in [1..n -> StatusTokens] :
              \A k \in 1..(n - 1) : st[k] = Space \/ st[k + 1] = Space }
          : n \in 0..MaxStatusLen }

DomainrBody(kind, status) == [kind |-> kind, status |-> status]

(* "missing": no status array or an empty one; "nofield": an entry without *)
(* a status string                                                         *)
DomainrBodies ==
  { DomainrBody(k, <<>>) : k \in {"unparseable", "missing", "nofield"} }
    \cup { DomainrBody("data", st) : st \in StatusStrings }

(* The bodies the retry scenarios are run with *)
RetryBodies ==
  { DomainrBody(k, <<>>) : k \in {"unparseable", "missing", "nofield"} }
    \cup { DomainrBody("data", st) :
             st \in { <<"inactive">>, <<"marketed">> } }

(* Porkbun: pricing/get and domain/checkDomain *)
ListingResponse(kind, tlds) == [kind |-> kind, tlds |-> tlds]

PorkbunListingResponses ==
  { ListingResponse(k, <<>>) : k \in {"throw", "http", "unparseable", "error", "missing"} }
    \cup { ListingResponse("data", l) : l \in TldLists }

PorkbunAvail(kind, message, avail, price, regularPrice, firstYearPromo, renewal) ==
  [kind |-> kind, message |-> message, avail |-> avail, price |-> price,
   regularPrice |-> regularPrice, firstYearPromo |-> firstYearPromo, renewal |-> renewal]

(* Prices are in cents: parseFloat of a decimal string *)
PorkbunAvailResponses ==
  { PorkbunAvail(k, None, "no", 0, 0, "no", None) :
      k \in {"throw", "http", "unparseable", "missing"} }
    \cup { PorkbunAvail("error", m, "no", 0, 0, "no", None) :
             m \in {None, Some("Domain is not valid")} }
    \cup { PorkbunAvail("data", None, a, 0, 0, "no", None) : a \in {"no", "maybe"} }
    \cup { PorkbunAvail("data", None, "yes", pr, 1000, promo, rn) :
             pr \in {500, 1000}, promo \in {"yes", "no"}, rn \in {None, Some(1500)} }

(* Cloudflare: /tlds, /domains/:domain and /domains/:domain/pricing. The   *)
(* client never reads the HTTP status of a response, only its body.        *)
CloudflareListingResponses ==
  { ListingResponse(k, <<>>) : k \in {"throw", "unparseable", "error", "missing"} }
    \cup { ListingResponse("data", l) : l \in TldLists }

CloudflareAvail(kind, message, available) ==
  [kind |-> kind, message |-> message, available |-> available]

CloudflareAvailResponses ==
  { CloudflareAvail(k, None, FALSE) : k \in {"throw", "unparseable"} }
    \cup { CloudflareAvail(k, m, FALSE) :
             k \in {"error", "missing"}, m \in {None, Some("Invalid domain")} }
    \cup { CloudflareAvail("data", None, a) : a \in BOOLEAN }

CloudflarePricing(kind, message, registration_price, renewal_price) ==
  [kind |-> kind, message |-> message, registration_price |-> registration_price,
   renewal_price |-> renewal_price]

CloudflarePricingResponses ==
  { CloudflarePricing(k, None, 0, 0) : k \in {"throw", "unparseable"} }
    \cup { CloudflarePricing(k, m, 0, 0) :
             k \in {"error", "missing"}, m \in {None, Some("Pricing unavailable")} }
    \cup { CloudflarePricing("data", None, 1000, rn) : rn \in {1000, 1100} }

(* Domains checkAvailability is called with *)
Domains ==
  { <<"google", "com">>, <<"example", "co", "uk">>, <<"example", "club">> }

(* The Domainr client passes the domain through unchanged *)
DomainrDomains == { <<"google", "com">> }

-----------------------------------------------------------------------------
(* One invocation of checkAvailability: its position (pc), its arguments   *)
(* and locals, what it ended with, and what it did on the way:             *)
(*   hist   the outcomes of the requests of makeRequest, in order          *)
(*   calls  the HTTP requests issued, per endpoint                         *)
(*   last   the kind of the last upstream answer it handled                *)
(*   body   the status string of the Domainr body it parsed                *)
(*   clean  no rate-limit state was stored when it started                 *)
(*   answer the answer of the availability endpoint it handled             *)
(*   recorded  its calls of recordFailure, in order: the outcome that      *)
(*             caused the call, the failureCount it wrote, and whether it  *)
(*             read the store RateLimitExpireIn or more after the kv.set   *)
(*             of the invocation's previous call                           *)

Procs == {1, 2}

NoCalls == [status |-> 0, listing |-> 0, avail |-> 0, pricing |-> 0]

IdleInv ==
  [pc |-> "idle", provider |-> "domainr", domain |-> <<>>,
   attempt |-> 0, state |-> None, wakeAt |-> 0, resp |-> "none",
   rfAt |-> 0, rfCur |-> None, rfFrom |-> "none", rfLate |-> FALSE, setAt |-> None,
   supported |-> <<>>,
   outcome |-> "none", result |-> Result(<<>>, JsFalse, "domainr", None, None),
   hist |-> <<>>, calls |-> NoCalls, last |-> "none", body |-> None, clean |-> FALSE,
   answer |-> None, recorded |-> <<>>]

(* handleWebhook: the update it was called with (text and sender of the    *)
(* message), ALLOW_HANDLES as it read it, its position, the texts it sent  *)
(* with sendMessage, and how it ended                                      *)
IdleHook ==
  [pc |-> "idle", text |-> None, username |-> None, allow |-> None,
   sent |-> <<>>, outcome |-> "none"]

(* The invocation ends with what checkAvailability returned (or threw);   *)
(* its locals are gone                                                     *)
Finished(r, end, lastKind) ==
  [r EXCEPT !.pc = "done", !.outcome = end.outcome, !.result = end.result,
            !.last = lastKind,
            !.attempt = 0, !.state = None, !.wakeAt = 0, !.resp = "none",
            !.rfAt = 0, !.rfCur = None, !.rfFrom = "none", !.rfLate = FALSE,
            !.setAt = None]

-----------------------------------------------------------------------------
(* The clock *)

Tick(d) ==
  /\ ticks < MaxTicks
  /\ now' = now + d
  /\ ticks' = ticks + 1
  /\ kvRateLimit' = KvExpire(kvRateLimit, now + d)
  /\ kvTlds' = KvExpire(kvTlds, now + d)

-----------------------------------------------------------------------------
(* The store helpers called directly, in any order, for any provider.      *)

(* prior: the failure count stored for the provider when the call began *)
ApiCall(op, provider, ms, state, tlds, prior) ==
  [op |-> op, provider |-> provider, ms |-> ms, state |-> state, tlds |-> tlds,
   prior |-> prior]

storedFailureCount(store, p) ==
  IF store[p] = None THEN 0 ELSE Val(store[p]).value.failureCount

(* No invocation of a client runs while the helpers are called directly *)
StoreIdle ==
  /\ inv = [i \in Procs |-> IdleInv]
  /\ started = 0
  /\ hook = IdleHook

StoreInit ==
  /\ now = 0
  /\ ticks = 0
  /\ kvRateLimit = [p \in Providers |-> None]
  /\ kvTlds = [p \in Providers |-> None]
  /\ api = ApiCall("none", "domainr", 0, None, None, 0)
  /\ streak = [p \in Providers |-> 0]
  /\ lapsed = [p \in Providers |-> FALSE]
  /\ wiped = [p \in Providers |-> -1]
  /\ lastSet = [p \in Providers |-> None]
  /\ StoreIdle

ApiRecordFailure(p) ==
  /\ streak[p] < (IF p = "domainr" THEN MaxFailures ELSE MaxOtherFailures)
  /\ kvRateLimit' = recordFailure(kvRateLimit, p, now)
  /\ api' = ApiCall("recordFailure", p, 0,
                    Some(newState(getRateLimitState(kvRateLimit, p), now)), None,
                    storedFailureCount(kvRateLimit, p))
  /\ streak' = [streak EXCEPT ![p] = @ + 1]
  /\ wiped' = [wiped EXCEPT ![p] = -1]
  /\ UNCHANGED <<now, ticks, kvTlds, lapsed, lastSet, inv, started, hook>>

ApiRecordSuccess(p) ==
  /\ kvRateLimit' = recordSuccess(kvRateLimit, p)
  /\ api' = ApiCall("recordSuccess", p, 0, None, None, storedFailureCount(kvRateLimit, p))
  /\ streak' = [streak EXCEPT ![p] = 0]
  /\ lapsed' = [lapsed EXCEPT ![p] = FALSE]
  /\ wiped' = [wiped EXCEPT ![p] = storedFailureCount(kvRateLimit, p)]
  /\ UNCHANGED <<now, ticks, kvTlds, lastSet, inv, started, hook>>

ApiGetWaitTime(p) ==
  /\ api' = ApiCall("getWaitTime", p,
                    getWaitTime(getRateLimitState(kvRateLimit, p), now), None, None,
                    storedFailureCount(kvRateLimit, p))
  /\ UNCHANGED <<now, ticks, kvRateLimit, kvTlds, streak, lapsed, wiped, lastSet, inv, started, hook>>

ApiGetRateLimitState(p) ==
  /\ api' = ApiCall("getRateLimitState", p, 0, getRateLimitState(kvRateLimit, p), None,
                    storedFailureCount(kvRateLimit, p))
  /\ UNCHANGED <<now, ticks, kvRateLimit, kvTlds, streak, lapsed, wiped, lastSet, inv, started, hook>>

ApiSetCachedTLDs(p, tlds) ==
  /\ kvTlds' = setCachedTLDs(kvTlds, p, tlds, now)
  /\ api' = ApiCall("setCachedTLDs", p, 0, None, Some(tlds), 0)
  /\ lastSet' = [lastSet EXCEPT ![p] = Some([tlds |-> tlds, at |-> now])]
  /\ UNCHANGED <<now, ticks, kvRateLimit, streak, lapsed, wiped, inv, started, hook>>

ApiGetCachedTLDs(p) ==
  /\ api' = ApiCall("getCachedTLDs", p, 0, None, getCachedTLDs(kvTlds, p), 0)
  /\ UNCHANGED <<now, ticks, kvRateLimit, kvTlds, streak, lapsed, wiped, lastSet, inv, started, hook>>

(* Time passes; an entry that expires is noted *)
Lapse ==
  lapsed' = [p \in Providers |->
               lapsed[p] \/ (kvRateLimit[p] # None /\ kvRateLimit'[p] = None)]

GuardTick ==
  /\ \E d \in GuardDeltas : Tick(d)
  /\ Lapse
  /\ UNCHANGED <<api, streak, wiped, lastSet, inv, started, hook>>

CacheTick ==
  /\ \E d \in CacheDeltas : Tick(d)
  /\ Lapse
  /\ UNCHANGED <<api, streak, wiped, lastSet, inv, started, hook>>

(* The rate-limit guard *)
GuardProviders == {"domainr", "porkbun"}

GuardNext ==
  \/ \E p \in GuardProviders : ApiRecordFailure(p)
  \/ \E p \in GuardProviders : ApiRecordSuccess(p)
  \/ \E p \in GuardProviders : ApiGetWaitTime(p)
  \/ \E p \in GuardProviders : ApiGetRateLimitState(p)
  \/ GuardTick

SpecGuard == StoreInit /\ [][GuardNext]_vars

(* The TLD cache *)
CacheProviders == {"porkbun", "cloudflare"}

CacheNext ==
  \/ \E p \in CacheProviders : \E tlds \in TldLists : ApiSetCachedTLDs(p, tlds)
  \/ \E p \in CacheProviders : ApiGetCachedTLDs(p)
  \/ CacheTick

SpecCache == StoreInit /\ [][CacheNext]_vars

(* The rate-limit guard and the TLD cache together, on the two registrars *)
StoreNext ==
  \/ \E p \in CacheProviders : ApiRecordFailure(p)
  \/ \E p \in CacheProviders : ApiRecordSuccess(p)
  \/ \E p \in CacheProviders : \E tlds \in TldLists : ApiSetCachedTLDs(p, tlds)
  \/ CacheTick

SpecStore == StoreInit /\ [][StoreNext]_vars

-----------------------------------------------------------------------------
(* lib/domainr.ts: makeRequest and checkAvailability, one step per await   *)

PROVIDER_NAME == "domainr"

(* one retry more than the source allows *)
MAX_RETRIES_PlusOne == 3 + 1

MAX_RETRIES == 3
RATE_LIMIT_STATUS_CODES == {"429"}

Set(i, r) == inv' = [inv EXCEPT ![i] = r]

CanStart(i) ==
  /\ inv[i].pc \in {"idle", "done"}
  /\ started < MaxCalls
  /\ started' = started + 1

(* checkAvailability refusing a TLD that getSupportedTLDs does not list *)
DrStartChecksTld(i, domain) ==
  /\ CanStart(i)
  /\ Set(i, Finished([IdleInv EXCEPT !.provider = "domainr", !.domain = domain],
                     Returned(Result(domain, JsFalse, "domainr", None,
                                     Some(Err("TLD not supported by Domainr", <<>>)))),
                     "none"))
  /\ UNCHANGED <<now, ticks, kvRateLimit, kvTlds, ghosts, hook>>

(* checkAvailability(domain) is called: makeRequest begins, attempt = 0 *)
DrStart(i, domain) ==
  /\ CanStart(i)
  /\ Set(i, [IdleInv EXCEPT !.pc = "loop", !.provider = PROVIDER_NAME, !.domain = domain,
                            !.clean = (kvRateLimit[PROVIDER_NAME] = None)])
  /\ UNCHANGED <<now, ticks, kvRateLimit, kvTlds, ghosts, hook>>

(* for (attempt <= MAX_RETRIES): getWaitTime reads the stored state; past  *)
(* the loop, makeRequest throws lastError                                  *)
DrLoop(i) ==
  /\ inv[i].pc = "loop"
  /\ inv[i].provider = PROVIDER_NAME
  /\ IF inv[i].attempt <= MAX_RETRIES
     THEN Set(i, [inv[i] EXCEPT !.pc = "gotState",
                                !.state = getRateLimitState(kvRateLimit, PROVIDER_NAME)])
     ELSE Set(i, Finished(inv[i],
                          domainrCatch(inv[i].domain, Err("Request failed after all retries", <<>>)),
                          inv[i].last))
  /\ UNCHANGED <<now, ticks, kvRateLimit, kvTlds, ghosts, started, hook>>

(* The request is issued *)
Fetching(r) ==
  [r EXCEPT !.pc = "inflight", !.calls = [@ EXCEPT !.status = @ + 1]]

(* makeRequest calling fetch without waiting *)
DrGotStateNoWait(i) ==
  /\ inv[i].pc = "gotState"
  /\ Set(i, Fetching(inv[i]))
  /\ UNCHANGED <<now, ticks, kvRateLimit, kvTlds, ghosts, started, hook>>

(* makeRequest giving up, without a request, when two or more failures    *)
(* are stored                                                              *)
DrGotStateGivesUp(i) ==
  /\ inv[i].pc = "gotState"
  /\ LET waitTime == getWaitTime(inv[i].state, now)
     IN  IF inv[i].state # None /\ Val(inv[i].state).failureCount >= 2
         THEN Set(i, Finished(inv[i], domainrCatch(inv[i].domain, Err("Rate limited", <<>>)),
                              inv[i].last))
         ELSE IF waitTime > 0
         THEN Set(i, [inv[i] EXCEPT !.pc = "sleep", !.wakeAt = now + waitTime])
         ELSE Set(i, Fetching(inv[i]))
  /\ UNCHANGED <<now, ticks, kvRateLimit, kvTlds, ghosts, started, hook>>

(* getWaitTime returns: a positive wait starts the timer, else fetch is called *)
DrGotState(i) ==
  /\ inv[i].pc = "gotState"
  /\ LET waitTime == getWaitTime(inv[i].state, now)
     IN  IF waitTime > 0
         THEN Set(i, [inv[i] EXCEPT !.pc = "sleep", !.wakeAt = now + waitTime])
         ELSE Set(i, Fetching(inv[i]))
  /\ UNCHANGED <<now, ticks, kvRateLimit, kvTlds, ghosts, started, hook>>

(* setTimeout(resolve, waitTime) fires, no earlier than asked; fetch is called *)
DrWake(i) ==
  /\ inv[i].pc = "sleep"
  /\ now' = Max(now, inv[i].wakeAt)
  /\ kvRateLimit' = KvExpire(kvRateLimit, now')
  /\ kvTlds' = KvExpire(kvTlds, now')
  /\ Set(i, Fetching(inv[i]))
  /\ UNCHANGED <<ticks, ghosts, started, hook>>

(* makeRequest counting every non-2xx status as a rate limit *)
DrResponseRecordsErrors(i, o) ==
  /\ inv[i].pc = "inflight"
  /\ LET r == [inv[i] EXCEPT !.hist = Append(@, o)]
     IN  IF ~responseOk(o)
         THEN Set(i, [r EXCEPT !.pc = "rfGet", !.rfAt = now, !.rfFrom = o])
         ELSE Set(i, [r EXCEPT !.pc = "rsDel", !.resp = o])
  /\ UNCHANGED <<now, ticks, kvRateLimit, kvTlds, ghosts, started, hook>>

(* fetch settles with a status or rejects. 429 and a rejection call        *)
(* recordFailure (its Date.now() is taken here), a 2xx calls               *)
(* recordSuccess, any other status is returned as it is.                   *)
DrResponse(i, o) ==
  /\ inv[i].pc = "inflight"
  /\ LET r == [inv[i] EXCEPT !.hist = Append(@, o)]
     IN  IF o = "throw" \/ o \in RATE_LIMIT_STATUS_CODES
         THEN Set(i, [r EXCEPT !.pc = "rfGet", !.rfAt = now, !.rfFrom = o])
         ELSE IF responseOk(o)
         THEN Set(i, [r EXCEPT !.pc = "rsDel", !.resp = o])
         ELSE Set(i, [r EXCEPT !.pc = "parse", !.resp = o])
  /\ UNCHANGED <<now, ticks, kvRateLimit, kvTlds, ghosts, started, hook>>

(* recordFailure: currentState = await getRateLimitState(provider) *)
DrRfGet(i) ==
  /\ inv[i].pc = "rfGet"
  /\ Set(i, [inv[i] EXCEPT !.pc = "rfSet",
                           !.rfCur = getRateLimitState(kvRateLimit, PROVIDER_NAME),
                           !.rfLate = (inv[i].setAt # None
                                         /\ now >= Val(inv[i].setAt) + RateLimitExpireIn)])
  /\ UNCHANGED <<now, ticks, kvRateLimit, kvTlds, ghosts, started, hook>>

(* makeRequest throwing on a 429 of its last attempt *)
afterRecordFailureThrowsLast429(r) ==
  IF r.attempt = MAX_RETRIES
  THEN Finished(r, domainrCatch(r.domain,
                     Err("Rate limit exceeded (429). Retrying...", <<>>)), "throw")
  ELSE [r EXCEPT !.pc = "loop", !.attempt = @ + 1]

(* makeRequest giving up on the first rejected fetch *)
afterRecordFailureThrowsAtOnce(r) ==
  IF r.rfFrom = "throw"
  THEN Finished(r, domainrCatch(r.domain, Err("fetch failed", <<>>)), "throw")
  ELSE IF r.attempt < MAX_RETRIES
       THEN [r EXCEPT !.pc = "loop", !.attempt = @ + 1]
       ELSE [r EXCEPT !.pc = "parse", !.resp = r.rfFrom]

(* After recordFailure: a 429 is retried while attempt < MAX_RETRIES and   *)
(* returned otherwise; a rejection is thrown when attempt = MAX_RETRIES    *)
(* and retried otherwise.                                                  *)
afterRecordFailure(r) ==
  IF r.rfFrom = "throw"
  THEN IF r.attempt = MAX_RETRIES
       THEN Finished(r, domainrCatch(r.domain, Err("fetch failed", <<>>)), "throw")
       ELSE [r EXCEPT !.pc = "loop", !.attempt = @ + 1]
  ELSE IF r.attempt < MAX_RETRIES
       THEN [r EXCEPT !.pc = "loop", !.attempt = @ + 1]
       ELSE [r EXCEPT !.pc = "parse", !.resp = r.rfFrom]

(* recordFailure: kv.set of the new state, then the wrapper goes on *)
DrRfSet(i) ==
  /\ inv[i].pc = "rfSet"
  /\ kvRateLimit' =
       [kvRateLimit EXCEPT ![PROVIDER_NAME] =
          Some(KvEntry(newState(inv[i].rfCur, inv[i].rfAt), now + RateLimitExpireIn))]
  /\ Set(i, afterRecordFailure(
              [inv[i] EXCEPT !.setAt = Some(now),
                             !.recorded =
                               Append(@, [from |-> inv[i].rfFrom,
                                          count |-> newState(inv[i].rfCur, inv[i].rfAt).failureCount,
                                          late |-> inv[i].rfLate])]))
  /\ UNCHANGED <<now, ticks, kvTlds, ghosts, started, hook>>

(* makeRequest returning a 2xx response without calling recordSuccess *)
DrRsDelSkipped(i) ==
  /\ inv[i].pc = "rsDel"
  /\ Set(i, [inv[i] EXCEPT !.pc = "parse"])
  /\ UNCHANGED <<now, ticks, kvRateLimit, kvTlds, ghosts, started, hook>>

(* recordSuccess: kv.delete, then the response is returned *)
DrRsDel(i) ==
  /\ inv[i].pc = "rsDel"
  /\ kvRateLimit' = recordSuccess(kvRateLimit, PROVIDER_NAME)
  /\ Set(i, [inv[i] EXCEPT !.pc = "parse"])
  /\ UNCHANGED <<now, ticks, kvTlds, ghosts, started, hook>>

(* checkAvailability on the response makeRequest returned *)
domainrParse(r, body, textThrows) ==
  IF ~responseOk(r.resp)
  THEN Finished(r,
         domainrCatch(r.domain,
           IF textThrows THEN Err("body stream error", <<>>) ELSE Err("HTTP ", <<r.resp>>)),
         "http")
  ELSE IF body.kind = "unparseable"
  THEN Finished(r, domainrCatch(r.domain, Err("Unexpected token in JSON", <<>>)), body.kind)
  ELSE IF body.kind = "missing"
  THEN Finished(r, domainrCatch(r.domain, Err("Missing status data from Domainr API", <<>>)),
                body.kind)
  ELSE IF body.kind = "nofield"
  THEN Finished(r, domainrCatch(r.domain, Err("Cannot read properties of undefined", <<>>)),
                "missing")
  ELSE Finished([r EXCEPT !.body = Some(body.status)],
                Returned(domainrStatusResult(r.domain, body.status)), body.kind)

(* What checkAvailability reads of the response makeRequest returned: of  *)
(* a non-2xx response whether response.text() rejects, of a 2xx response   *)
(* the body                                                                *)
DomainrAnswer(resp, body, textThrows) ==
  IF ~responseOk(resp)
  THEN [kind |-> "http", status |-> <<>>, textThrows |-> textThrows]
  ELSE [kind |-> body.kind, status |-> body.status, textThrows |-> FALSE]

DrParse(i, body, textThrows) ==
  /\ inv[i].pc = "parse"
  /\ Set(i, domainrParse([inv[i] EXCEPT
                            !.answer = Some(DomainrAnswer(inv[i].resp, body, textThrows))],
                         body, textThrows))
  /\ UNCHANGED <<now, ticks, kvRateLimit, kvTlds, ghosts, started, hook>>

(* getSupportedTLDs of the Domainr client *)
domainrGetSupportedTLDs == <<>>

(* getSupportedTLDs of the Domainr client is called: no request, no store access *)
DrGetSupportedTLDs ==
  /\ api' = ApiCall("getSupportedTLDs", PROVIDER_NAME, 0, None, Some(domainrGetSupportedTLDs), 0)
  /\ UNCHANGED <<now, ticks, kvRateLimit, kvTlds, streak, lapsed, wiped, lastSet, inv, started, hook>>

-----------------------------------------------------------------------------
(* lib/porkbun.ts: checkAvailability and getSupportedTLDs *)

(* catch (error) of checkAvailability *)
porkbunCatch(domain, e) == Returned(Result(domain, JsFalse, "porkbun", None, Some(e)))

(* data.message || fallback *)
messageOr(message, fallback) == IF message = None THEN fallback ELSE Val(message)

(* pricing of an available domain: firstYear is the promotional price when *)
(* firstYearPromo is "yes"                                                 *)
porkbunPricing(resp) ==
  LET firstYearPrice == resp.price
      regularPrice == resp.regularPrice
      renewalPrice == IF resp.renewal # None THEN Val(resp.renewal) ELSE regularPrice
  IN  PricingInfo(regularPrice, renewalPrice,
                  IF resp.firstYearPromo = "yes" THEN Some(firstYearPrice) ELSE None,
                  "USD")

(* checkAvailability without the TLD check *)
porkbunCheckTldSkipped(r, supportedTLDs) ==
  [r EXCEPT !.supported = supportedTLDs, !.pc = "availInflight",
            !.calls = [@ EXCEPT !.avail = @ + 1]]

(* checkAvailability once getSupportedTLDs returned: the TLD check, then   *)
(* the availability request is issued                                      *)
porkbunCheckTld(r, supportedTLDs) ==
  IF ~includes(supportedTLDs, extractTLD(r.domain))
  THEN Finished([r EXCEPT !.supported = supportedTLDs],
                Returned(Result(r.domain, JsFalse, "porkbun", None,
                                Some(Err("TLD not supported by Porkbun", <<>>)))),
                r.last)
  ELSE [r EXCEPT !.supported = supportedTLDs, !.pc = "availInflight",
                 !.calls = [@ EXCEPT !.avail = @ + 1]]

PbStart(i, domain) ==
  /\ CanStart(i)
  /\ Set(i, [IdleInv EXCEPT !.pc = "cacheGet", !.provider = "porkbun", !.domain = domain])
  /\ UNCHANGED <<now, ticks, kvRateLimit, kvTlds, ghosts, hook>>

(* getSupportedTLDs requesting pricing/get whatever the cache holds *)
PbCacheGetAlwaysFetches(i) ==
  /\ inv[i].pc = "cacheGet"
  /\ inv[i].provider = "porkbun"
  /\ Set(i, [inv[i] EXCEPT !.pc = "listInflight", !.calls = [@ EXCEPT !.listing = @ + 1]])
  /\ UNCHANGED <<now, ticks, kvRateLimit, kvTlds, ghosts, started, hook>>

(* getSupportedTLDs: the cached list if there is one, else pricing/get is requested *)
PbCacheGet(i) ==
  /\ inv[i].pc = "cacheGet"
  /\ inv[i].provider = "porkbun"
  /\ LET cached == getCachedTLDs(kvTlds, "porkbun")
     IN  IF cached # None
         THEN Set(i, porkbunCheckTld(inv[i], Val(cached)))
         ELSE Set(i, [inv[i] EXCEPT !.pc = "listInflight",
                                    !.calls = [@ EXCEPT !.listing = @ + 1]])
  /\ UNCHANGED <<now, ticks, kvRateLimit, kvTlds, ghosts, started, hook>>

(* What getSupportedTLDs ends with after a cache miss: the list returned  *)
(* (or the error thrown) and whether the list was cached                   *)
Listed(outcome, tlds, cache, error) ==
  [outcome |-> outcome, tlds |-> tlds, cache |-> cache, error |-> error]

(* getSupportedTLDs without its catch: the failure reaches checkAvailability *)
porkbunListingRethrows(resp) ==
  IF resp.kind = "data" THEN Listed("returned", resp.tlds, TRUE, None)
  ELSE Listed("threw", <<>>, FALSE, Some(Err("Failed to fetch Porkbun pricing", <<>>)))

(* getSupportedTLDs caching the empty list it returns on a failure *)
porkbunListingCachesFailure(resp) ==
  IF resp.kind = "data" THEN Listed("returned", resp.tlds, TRUE, None)
  ELSE Listed("returned", <<>>, TRUE, None)

(* getSupportedTLDs from the fetch of pricing/get on: Object.keys of       *)
(* data.pricing is cached and returned; catch (error) returns []           *)
porkbunListing(resp) ==
  IF resp.kind = "data" THEN Listed("returned", resp.tlds, TRUE, None)
  ELSE Listed("returned", <<>>, FALSE, None)

(* getSupportedTLDs on the answer of pricing/get: the keys of data.pricing *)
(* are cached and returned; any failure returns []                         *)
PbListingResponse(i, resp) ==
  /\ inv[i].pc = "listInflight"
  /\ inv[i].provider = "porkbun"
  /\ LET got == porkbunListing(resp)
         r == [inv[i] EXCEPT !.last = resp.kind]
     IN  /\ kvTlds' = (IF got.cache THEN setCachedTLDs(kvTlds, "porkbun", got.tlds, now)
                                    ELSE kvTlds)
         /\ IF got.outcome = "threw"
            THEN Set(i, Finished(r, porkbunCatch(r.domain, Val(got.error)), resp.kind))
            ELSE Set(i, porkbunCheckTld(r, got.tlds))
  /\ UNCHANGED <<now, ticks, kvRateLimit, ghosts, started, hook>>

(* checkAvailability on the answer of domain/checkDomain *)
porkbunAvailability(r, resp) ==
  IF resp.kind = "throw"
  THEN porkbunCatch(r.domain, Err("fetch failed", <<>>))
  ELSE IF resp.kind = "http"
  THEN porkbunCatch(r.domain, Err("HTTP ", <<"500">>))
  ELSE IF resp.kind = "unparseable"
  THEN porkbunCatch(r.domain, Err("Unexpected token in JSON", <<>>))
  ELSE IF resp.kind = "error"
  THEN porkbunCatch(r.domain, Err(messageOr(resp.message, "Unknown error"), <<>>))
  ELSE IF resp.kind = "missing"
  THEN porkbunCatch(r.domain, Err("Missing response data from Porkbun API", <<>>))
  ELSE IF resp.avail = "no"
  THEN Returned(Result(r.domain, JsFalse, "porkbun", None, None))
  ELSE IF resp.avail = "yes"
  THEN Returned(Result(r.domain, JsTrue, "porkbun", Some(porkbunPricing(resp)), None))
  ELSE porkbunCatch(r.domain, Err("Unexpected availability status: ", <<resp.avail>>))

PbAvailResponse(i, resp) ==
  /\ inv[i].pc = "availInflight"
  /\ inv[i].provider = "porkbun"
  /\ Set(i, Finished([inv[i] EXCEPT !.answer = Some(resp)],
                     porkbunAvailability(inv[i], resp), resp.kind))
  /\ UNCHANGED <<now, ticks, kvRateLimit, kvTlds, ghosts, started, hook>>

-----------------------------------------------------------------------------
(* The Cloudflare client: checkAvailability and getSupportedTLDs *)

(* catch (error) of checkAvailability *)
cloudflareCatch(domain, e) == Returned(Result(domain, JsFalse, "cloudflare", None, Some(e)))

(* checkAvailability taking an empty list as "every TLD is supported" *)
cloudflareCheckTldEmptyAcceptsAll(r, supportedTLDs) ==
  IF supportedTLDs # <<>> /\ ~includes(supportedTLDs, extractTLD(r.domain))
  THEN Finished([r EXCEPT !.supported = supportedTLDs],
                Returned(Result(r.domain, JsFalse, "cloudflare", None,
                                Some(Err("TLD not supported by Cloudflare", <<>>)))),
                r.last)
  ELSE [r EXCEPT !.supported = supportedTLDs, !.pc = "availInflight",
                 !.calls = [@ EXCEPT !.avail = @ + 1]]

(* checkAvailability once getSupportedTLDs returned: the TLD check, then   *)
(* the availability request is issued                                      *)
cloudflareCheckTld(r, supportedTLDs) ==
  IF ~includes(supportedTLDs, extractTLD(r.domain))
  THEN Finished([r EXCEPT !.supported = supportedTLDs],
                Returned(Result(r.domain, JsFalse, "cloudflare", None,
                                Some(Err("TLD not supported by Cloudflare", <<>>)))),
                r.last)
  ELSE [r EXCEPT !.supported = supportedTLDs, !.pc = "availInflight",
                 !.calls = [@ EXCEPT !.avail = @ + 1]]

CfStart(i, domain) ==
  /\ CanStart(i)
  /\ Set(i, [IdleInv EXCEPT !.pc = "cacheGet", !.provider = "cloudflare", !.domain = domain])
  /\ UNCHANGED <<now, ticks, kvRateLimit, kvTlds, ghosts, hook>>

(* getSupportedTLDs: the cached list if there is one, else /tlds is requested *)
CfCacheGet(i) ==
  /\ inv[i].pc = "cacheGet"
  /\ inv[i].provider = "cloudflare"
  /\ LET cached == getCachedTLDs(kvTlds, "cloudflare")
     IN  IF cached # None
         THEN Set(i, cloudflareCheckTld(inv[i], Val(cached)))
         ELSE Set(i, [inv[i] EXCEPT !.pc = "listInflight",
                                    !.calls = [@ EXCEPT !.listing = @ + 1]])
  /\ UNCHANGED <<now, ticks, kvRateLimit, kvTlds, ghosts, started, hook>>

(* getSupportedTLDs from the fetch of /tlds on: data.result is cached and *)
(* returned; catch (error) returns []                                      *)
cloudflareListing(resp) ==
  IF resp.kind = "data" THEN Listed("returned", resp.tlds, TRUE, None)
  ELSE Listed("returned", <<>>, FALSE, None)

(* getSupportedTLDs on the answer of /tlds: data.result is cached and      *)
(* returned; any failure returns []                                        *)
CfListingResponse(i, resp) ==
  /\ inv[i].pc = "listInflight"
  /\ inv[i].provider = "cloudflare"
  /\ LET got == cloudflareListing(resp)
         r == [inv[i] EXCEPT !.last = resp.kind]
     IN  /\ kvTlds' = (IF got.cache THEN setCachedTLDs(kvTlds, "cloudflare", got.tlds, now)
                                    ELSE kvTlds)
         /\ IF got.outcome = "threw"
            THEN Set(i, Finished(r, cloudflareCatch(r.domain, Val(got.error)), resp.kind))
            ELSE Set(i, cloudflareCheckTld(r, got.tlds))
  /\ UNCHANGED <<now, ticks, kvRateLimit, ghosts, started, hook>>

(* checkAvailability asking for the price whatever the availability *)
cloudflareAvailabilityAlwaysPrices(r, resp) ==
  [r EXCEPT !.pc = "priceInflight", !.last = resp.kind,
            !.calls = [@ EXCEPT !.pricing = @ + 1]]

(* checkAvailability on the answer of /domains/:domain: an available       *)
(* domain goes on to the pricing request                                   *)
cloudflareAvailability(r, resp) ==
  IF resp.kind = "throw"
  THEN Finished(r, cloudflareCatch(r.domain, Err("fetch failed", <<>>)), resp.kind)
  ELSE IF resp.kind = "unparseable"
  THEN Finished(r, cloudflareCatch(r.domain, Err("Unexpected token in JSON", <<>>)), resp.kind)
  ELSE IF resp.kind \in {"error", "missing"}
  THEN Finished(r, cloudflareCatch(r.domain, Err(messageOr(resp.message, "Unknown error"), <<>>)),
                resp.kind)
  ELSE IF ~resp.available
  THEN Finished(r, Returned(Result(r.domain, JsFalse, "cloudflare", None, None)), resp.kind)
  ELSE [r EXCEPT !.pc = "priceInflight", !.last = resp.kind,
                 !.calls = [@ EXCEPT !.pricing = @ + 1]]

CfAvailResponse(i, resp) ==
  /\ inv[i].pc = "availInflight"
  /\ inv[i].provider = "cloudflare"
  /\ Set(i, cloudflareAvailability([inv[i] EXCEPT !.answer = Some(resp)], resp))
  /\ UNCHANGED <<now, ticks, kvRateLimit, kvTlds, ghosts, started, hook>>

(* checkAvailability keeping available = true when the pricing request fails *)
cloudflarePricingKeepsAvailable(r, resp) ==
  IF resp.kind \in {"throw", "unparseable", "error", "missing"}
  THEN Returned(Result(r.domain, JsTrue, "cloudflare", None,
                       Some(Err(messageOr(resp.message, "Unknown error"), <<>>))))
  ELSE Returned(Result(r.domain, JsTrue, "cloudflare",
                       Some(PricingInfo(resp.registration_price, resp.renewal_price, None, "USD")),
                       None))

(* checkAvailability on the answer of /domains/:domain/pricing *)
cloudflarePricing(r, resp) ==
  IF resp.kind = "throw"
  THEN cloudflareCatch(r.domain, Err("fetch failed", <<>>))
  ELSE IF resp.kind = "unparseable"
  THEN cloudflareCatch(r.domain, Err("Unexpected token in JSON", <<>>))
  ELSE IF resp.kind \in {"error", "missing"}
  THEN cloudflareCatch(r.domain, Err(messageOr(resp.message, "Unknown error"), <<>>))
  ELSE Returned(Result(r.domain, JsTrue, "cloudflare",
                       Some(PricingInfo(resp.registration_price, resp.renewal_price, None, "USD")),
                       None))

CfPricingResponse(i, resp) ==
  /\ inv[i].pc = "priceInflight"
  /\ Set(i, Finished(inv[i], cloudflarePricing(inv[i], resp), resp.kind))
  /\ UNCHANGED <<now, ticks, kvRateLimit, kvTlds, ghosts, started, hook>>

-----------------------------------------------------------------------------
(* The clients, one invocation at a time *)

ClientTick ==
  /\ \E d \in ClientDeltas : Tick(d)
  /\ UNCHANGED <<ghosts, inv, started, hook>>

RetryTick ==
  /\ \E d \in RetryDeltas : Tick(d)
  /\ UNCHANGED <<ghosts, inv, started, hook>>

Init ==
  /\ now = 0
  /\ ticks = 0
  /\ kvRateLimit = [p \in Providers |-> None]
  /\ kvTlds = [p \in Providers |-> None]
  /\ api = ApiCall("none", "domainr", 0, None, None, 0)
  /\ streak = [p \in Providers |-> 0]
  /\ lapsed = [p \in Providers |-> FALSE]
  /\ wiped = [p \in Providers |-> -1]
  /\ lastSet = [p \in Providers |-> None]
  /\ inv = [i \in Procs |-> IdleInv]
  /\ started = 0
  /\ hook = IdleHook

(* The steps of an invocation of the Domainr client after its start *)
DrProgress(i) ==
  \/ DrLoop(i)
  \/ DrGotState(i)
  \/ DrWake(i)
  \/ \E o \in DomainrOutcomes : DrResponse(i, o)
  \/ DrRfGet(i)
  \/ DrRfSet(i)
  \/ DrRsDel(i)
  \/ \E body \in RetryBodies : \E textThrows \in BOOLEAN : DrParse(i, body, textThrows)

DrStep(i) ==
  \/ \E domain \in DomainrDomains : DrStart(i, domain)
  \/ DrProgress(i)

PbStep(i) ==
  \/ \E domain \in Domains : PbStart(i, domain)
  \/ PbCacheGet(i)
  \/ \E resp \in PorkbunListingResponses : PbListingResponse(i, resp)
  \/ \E resp \in PorkbunAvailResponses : PbAvailResponse(i, resp)

CfStep(i) ==
  \/ \E domain \in Domains : CfStart(i, domain)
  \/ CfCacheGet(i)
  \/ \E resp \in CloudflareListingResponses : CfListingResponse(i, resp)
  \/ \E resp \in CloudflareAvailResponses : CfAvailResponse(i, resp)
  \/ \E resp \in CloudflarePricingResponses : CfPricingResponse(i, resp)

(* The three clients, called one after the other *)
Next == DrStep(1) \/ PbStep(1) \/ CfStep(1) \/ ClientTick

Spec == Init /\ [][Next]_vars

(* The Domainr client alone. Every await of an invocation settles: the     *)
(* store answers, a timer fires, fetch resolves or rejects.                *)
RetryNext == DrStep(1) \/ RetryTick

FairRetry == Init /\ [][RetryNext]_vars /\ WF_vars(DrProgress(1))

(* Two invocations of the Domainr client running concurrently: their      *)
(* awaits settle in any order. At most MaxRaceFailures of the requests in  *)
(* progress are answered 429 or rejected.                                  *)
MaxRaceFailures == 3

RaceBodies == { DomainrBody("missing", <<>>), DomainrBody("data", <<"inactive">>) }

RaceFailures(i) ==
  Cardinality({ k \in 1..Len(inv[i].hist) : inv[i].hist[k] \in {"429", "throw"} })

DrRaceResponse(i, o) ==
  /\ o \in {"429", "throw"} => RaceFailures(1) + RaceFailures(2) < MaxRaceFailures
  /\ DrResponse(i, o)

DrRaceStep(i) ==
  \/ \E domain \in DomainrDomains : DrStart(i, domain)
  \/ DrLoop(i)
  \/ DrGotState(i)
  \/ DrWake(i)
  \/ \E o \in DomainrOutcomes : DrRaceResponse(i, o)
  \/ DrRfGet(i)
  \/ DrRfSet(i)
  \/ DrRsDel(i)
  \/ \E body \in RaceBodies : \E textThrows \in BOOLEAN : DrParse(i, body, textThrows)

RaceNext == \E i \in Procs : DrRaceStep(i)

SpecRace == Init /\ [][RaceNext]_vars

(* The Porkbun and Cloudflare clients, called one after the other *)
RegistrarNext == PbStep(1) \/ CfStep(1) \/ ClientTick

SpecRegistrar == Init /\ [][RegistrarNext]_vars

(* The Domainr client on answers of status 200, for every domain and body *)
StatusNext ==
  \/ \E domain \in Domains : DrStart(1, domain)
  \/ DrGetSupportedTLDs
  \/ DrLoop(1)
  \/ DrGotState(1)
  \/ DrResponse(1, "200")
  \/ DrRsDel(1)
  \/ \E body \in DomainrBodies : DrParse(1, body, FALSE)

SpecStatus == Init /\ [][StatusNext]_vars

-----------------------------------------------------------------------------
(* Exported functions called on their own: the input is drawn, then the    *)
(* function is applied to it                                               *)

FnCall(op, arg, ret) == [op |-> op, arg |-> arg, ret |-> ret]

FnInit(inputs) ==
  /\ now = 0
  /\ ticks = 0
  /\ kvRateLimit = [p \in Providers |-> None]
  /\ kvTlds = [p \in Providers |-> None]
  /\ \E x \in inputs : api = FnCall("input", x, None)
  /\ streak = [p \in Providers |-> 0]
  /\ lapsed = [p \in Providers |-> FALSE]
  /\ wiped = [p \in Providers |-> -1]
  /\ lastSet = [p \in Providers |-> None]
  /\ inv = [i \in Procs |-> IdleInv]
  /\ started = 0
  /\ hook = IdleHook

FnApply(op, ret) ==
  /\ api.op = "input"
  /\ api' = FnCall(op, api.arg, Some(ret))
  /\ UNCHANGED <<now, ticks, kvRateLimit, kvTlds, streak, lapsed, wiped, lastSet, inv, started, hook>>

(* lib/utils.ts: extractTLD on domain names of up to MaxLabels labels *)
MaxLabels == 3

Labels == {"example", "co", "uk", "com", "au"}

DomainNames == UNION { [1..n -> Labels] : n \in 1..MaxLabels }

CallExtractTLD == FnApply("extractTLD", extractTLD(api.arg))

SpecExtractTLD == FnInit(DomainNames) /\ [][CallExtractTLD]_vars

-----------------------------------------------------------------------------
(* webhook.ts: formatResult, and formatPrice of lib/utils.ts. A text is    *)
(* the sequence of its pieces, each a string; prices are in cents.         *)

(* parts.join("."): a domain as text *)
RECURSIVE joinDots(_)
joinDots(parts) ==
  IF Len(parts) = 0 THEN <<>>
  ELSE IF Len(parts) = 1 THEN <<parts[1]>>
  ELSE <<parts[1], ".">> \o joinDots(Tail(parts))

(* the text of an error message *)
errorText(e) == (IF e.msg = "" THEN <<>> ELSE <<e.msg>>) \o e.arg

(* JavaScript truthiness of an optional string, of an optional number and  *)
(* of the available field                                                  *)
truthyText(o) == o # None /\ errorText(Val(o)) # <<>>
truthyNumber(o) == o # None /\ Val(o) # 0
truthyValue(v) == v \notin {JsFalse, JsUndefined}

(* The message texts that contain "not supported" *)
NotSupportedMessages ==
  {"TLD not supported by Porkbun", "TLD not supported by Cloudflare"}

(* result.error.includes("not supported") *)
includesNotSupported(e) == e.msg \in NotSupportedMessages

(* Number.prototype.toFixed(2) *)
toFixed2(cents) ==
  <<ToString(cents \div 100), ".", ToString((cents % 100) \div 10), ToString(cents % 10)>>

(* result.provider.charAt(0).toUpperCase() + result.provider.slice(1) *)
capitalize(provider) ==
  IF provider = "porkbun" THEN "Porkbun"
  ELSE IF provider = "cloudflare" THEN "Cloudflare"
  ELSE IF provider = "domainr" THEN "Domainr"
  ELSE provider

formatPrice(pricing, provider) ==
  LET renewalPrice == toFixed2(pricing.renewal)
      currency == IF pricing.currency = "USD" THEN "$" ELSE pricing.currency
  IN  <<currency>> \o renewalPrice \o <<" / yr">>
        \o (IF truthyNumber(pricing.firstYear) /\ Val(pricing.firstYear) # pricing.renewal
            THEN <<" (", currency>> \o toFixed2(Val(pricing.firstYear)) \o <<" first year)">>
            ELSE <<>>)
        \o <<" (", provider, ")">>

formatResult(result) ==
  IF truthyText(result.error)
  THEN IF includesNotSupported(Val(result.error))
       THEN <<"Error: ", "The domain \"">> \o joinDots(result.domain)
              \o <<"\" uses a TLD that is not supported by Porkbun.">>
       ELSE <<"Error: ">> \o errorText(Val(result.error))
  ELSE IF ~truthyValue(result.available)
  THEN joinDots(result.domain) \o <<" is not available.">>
  ELSE IF result.pricing = None
  THEN joinDots(result.domain) \o <<" is available!">>
  ELSE joinDots(result.domain) \o <<" is available!", "\n">>
         \o formatPrice(Val(result.pricing), capitalize(result.provider))

(* The results formatResult is applied to *)
FormatPrices == {0, 500, 1500}

FormatPricings ==
  { PricingInfo(1000, rn, fy, cur) :
      rn \in FormatPrices \ {0},
      fy \in {None} \cup { Some(c) : c \in FormatPrices },
      cur \in {"USD", "EUR"} }

FormatErrors ==
  { None, Some(Err("", <<>>)), Some(Err("HTTP ", <<"500">>)),
    Some(Err("TLD not supported by Porkbun", <<>>)) }

FormatResults ==
  { Result(d, a, p, pr, e) :
      d \in { <<"google", "com">>, <<"example", "co", "uk">> },
      a \in {JsTrue, JsFalse, JsInherited},
      p \in {"porkbun", "domainr"},
      pr \in {None} \cup { Some(x) : x \in FormatPricings },
      e \in FormatErrors }

CallFormatResult == FnApply("formatResult", formatResult(api.arg))

SpecFormat == FnInit(FormatResults) /\ [][CallFormatResult]_vars

-----------------------------------------------------------------------------
(* webhook.ts: handleWebhook, and isValidDomain of lib/utils.ts.           *)
(* A message text is the sequence of its tokens: words (runs of characters *)
(* other than whitespace and dots), "." and " ". Two words are never       *)
(* adjacent (they would be one word).                                      *)

MaxTextLen == 4

Dot == "."
TextWords == {"Com", "uk", "x", "42", "-bad", "/start"}
TextTokens == TextWords \cup {Dot, Space}

Texts ==
  UNION { { t \in [1..n -> TextTokens] :
              \A k \in 1..(n - 1) : t[k] \notin TextWords \/ t[k + 1] \notin TextWords }
          : n \in 0..MaxTextLen }

(* String.prototype.trim *)
RECURSIVE trimStart(_)
trimStart(t) == IF Len(t) > 0 /\ t[1] = Space THEN trimStart(Tail(t)) ELSE t

RECURSIVE trimEnd(_)
trimEnd(t) ==
  IF Len(t) > 0 /\ t[Len(t)] = Space THEN trimEnd(SubSeq(t, 1, Len(t) - 1)) ELSE t

trim(t) == trimEnd(trimStart(t))

(* The words that match [a-zA-Z0-9]([a-zA-Z0-9-]{0,61}[a-zA-Z0-9])? *)
LabelWords == {"Com", "com", "uk", "x", "42"}

(* The words that match [a-zA-Z]{2,} *)
TldWords == {"Com", "com", "uk"}

(* /^(label\.)+tld$/ on the trimmed text: label, ".", ..., label, ".", tld *)
isValidDomain(text) ==
  LET t == trim(text)
      n == Len(t)
  IN  /\ n >= 3
      /\ n % 2 = 1
      /\ \A k \in 1..n :
           IF k % 2 = 0 THEN t[k] = Dot
           ELSE IF k = n THEN t[k] \in TldWords
           ELSE t[k] \in LabelWords

(* text.toLowerCase(), as the labels the clients split it into *)
labelsOf(t) == [k \in 1..((Len(t) + 1) \div 2) |-> toLowerCase(t[2 * k - 1])]

(* message.from.username *)
Usernames == {None, Some("Alice"), Some("mallory")}

(* ALLOW_HANDLES as allowHandles.split(",") reads it; unset is None and    *)
(* the empty string is the single empty entry                              *)
AllowValues == {None, Some(<<"">>), Some(<<"alice">>), Some(<<" Bob", "Alice ">>)}

(* h.trim() of an entry of ALLOW_HANDLES *)
trimHandle(h) ==
  IF h = " Bob" THEN "Bob" ELSE IF h = "Alice " THEN "Alice" ELSE h

(* allowHandles.split(",").map((h) => h.trim().toLowerCase()) *)
allowedList(entries) == [k \in 1..Len(entries) |-> toLowerCase(trimHandle(entries[k]))]

WelcomeMessage == <<"Welcome to Domain Checker Bot!">>
NotEnabledMessage == <<"Sorry, this bot is currently not enabled for your account.">>
InvalidMessage(t) == <<"Error: \"">> \o t \o <<"\" is ", "not a valid domain name", ".">>

(* handleWebhook is over: what it sent and whether it returned or threw *)
Ended(h, sent, outcome) == [h EXCEPT !.pc = "done", !.sent = @ \o sent, !.outcome = outcome]

(* handleWebhook calling the provider without validating the text *)
handleWebhookUnvalidated(text, username, allow) ==
  LET h == [IdleHook EXCEPT !.text = text, !.username = username, !.allow = allow]
  IN  IF text = None \/ Val(text) = <<>> THEN Ended(h, <<>>, "returned")
      ELSE IF trim(Val(text)) = <<"/start">> THEN Ended(h, <<WelcomeMessage>>, "returned")
      ELSE IF allow = None \/ Val(allow) = <<"">> THEN Ended(h, <<>>, "threw")
      ELSE IF username = None
                \/ ~includes(allowedList(Val(allow)), toLowerCase(Val(username)))
      THEN Ended(h, <<NotEnabledMessage>>, "returned")
      ELSE [h EXCEPT !.pc = "react"]

(* handleWebhook authorizing the sender after validating the text *)
handleWebhookValidatesFirst(text, username, allow) ==
  LET h == [IdleHook EXCEPT !.text = text, !.username = username, !.allow = allow]
  IN  IF text = None \/ Val(text) = <<>> THEN Ended(h, <<>>, "returned")
      ELSE IF trim(Val(text)) = <<"/start">> THEN Ended(h, <<WelcomeMessage>>, "returned")
      ELSE IF ~isValidDomain(trim(Val(text)))
      THEN Ended(h, <<InvalidMessage(trim(Val(text)))>>, "returned")
      ELSE [h EXCEPT !.pc = "react"]

(* handleWebhook up to its first await on the provider: no text, /start,   *)
(* ALLOW_HANDLES missing, sender not allowed, text not a domain, or on to  *)
(* the reaction                                                            *)
handleWebhook(text, username, allow) ==
  LET h == [IdleHook EXCEPT !.text = text, !.username = username, !.allow = allow]
  IN  IF text = None \/ Val(text) = <<>> THEN Ended(h, <<>>, "returned")
      ELSE IF trim(Val(text)) = <<"/start">> THEN Ended(h, <<WelcomeMessage>>, "returned")
      ELSE IF allow = None \/ Val(allow) = <<"">> THEN Ended(h, <<>>, "threw")
      ELSE IF username = None
                \/ ~includes(allowedList(Val(allow)), toLowerCase(Val(username)))
      THEN Ended(h, <<NotEnabledMessage>>, "returned")
      ELSE IF ~isValidDomain(trim(Val(text)))
      THEN Ended(h, <<InvalidMessage(trim(Val(text)))>>, "returned")
      ELSE [h EXCEPT !.pc = "react"]

(* An update arrives and handleWebhook runs up to its first await on the   *)
(* provider                                                                *)
WhReceive ==
  /\ hook.pc = "idle"
  /\ started < MaxCalls
  /\ \E text \in {None} \cup { Some(t) : t \in Texts } :
       \E username \in Usernames : \E allow \in AllowValues :
         hook' = handleWebhook(text, username, allow)
  /\ UNCHANGED <<now, ticks, kvRateLimit, kvTlds, ghosts, inv, started>>

(* await setMessageReaction(...): it returns, or it throws and ends handleWebhook *)
WhReact(ok) ==
  /\ hook.pc = "react"
  /\ hook' = (IF ok THEN [hook EXCEPT !.pc = "check"] ELSE Ended(hook, <<>>, "threw"))
  /\ UNCHANGED <<now, ticks, kvRateLimit, kvTlds, ghosts, inv, started>>

(* checkDomain(text.toLowerCase()): porkbunChecker.checkAvailability is called *)
WhCheck ==
  /\ hook.pc = "check"
  /\ inv[1].pc = "idle"
  /\ PbStart(1, labelsOf(trim(Val(hook.text))))

(* The steps of checkAvailability while handleWebhook awaits it *)
WhPorkbun ==
  /\ hook.pc = "check"
  /\ \/ PbCacheGet(1)
     \/ \E resp \in PorkbunListingResponses : PbListingResponse(1, resp)
     \/ \E resp \in PorkbunAvailResponses : PbAvailResponse(1, resp)

(* sendMessage(chatId, formatResult(result), messageId) *)
WhReply ==
  /\ hook.pc = "check"
  /\ inv[1].pc = "done"
  /\ hook' = Ended(hook, <<formatResult(inv[1].result)>>, inv[1].outcome)
  /\ UNCHANGED <<now, ticks, kvRateLimit, kvTlds, ghosts, inv, started>>

(* handleWebhook is settled and its locals are gone; the next update can  *)
(* be handled                                                              *)
WhSettle ==
  /\ hook.pc = "done"
  /\ hook' = IdleHook
  /\ inv' = [inv EXCEPT ![1] = IdleInv]
  /\ UNCHANGED <<now, ticks, kvRateLimit, kvTlds, ghosts, started>>

WebhookNext ==
  \/ WhReceive
  \/ \E ok \in BOOLEAN : WhReact(ok)
  \/ WhCheck
  \/ WhPorkbun
  \/ WhReply
  \/ WhSettle

SpecWebhook == Init /\ [][WebhookNext]_vars

-----------------------------------------------------------------------------
(* webhook.ts: handler, the HTTP handler given to Deno.serve. api holds    *)
(* the request in progress (method, path and what req.json() makes of the  *)
(* body), the response given, and whether the catch callback of            *)
(* handleWebhook logged an error.                                          *)

Request(method, path, body) == [method |-> method, path |-> path, body |-> body]

Response(text, status) == [text |-> text, status |-> status]

HttpExchange(req, ret, logged) == [op |-> "handler", arg |-> req, ret |-> ret, logged |-> logged]

(* body: "unparseable" when req.json() rejects, "null" for JSON that is    *)
(* not an object (reading update.message throws), "update" for an update   *)
Requests ==
  { Request(method, path, body) :
      method \in {"GET", "POST", "PUT"}, path \in {"/", "/other"},
      body \in {"unparseable", "null", "update"} }

(* handler answering a POST only once handleWebhook has settled *)
handlerAwaitsWebhook(req) ==
  IF req.path = "/" /\ req.method = "GET"
  THEN Some(Response("Domain Checker Bot is running!", "200"))
  ELSE IF req.path = "/" /\ req.method = "POST"
  THEN IF req.body = "unparseable" THEN Some(Response("Bad Request", "400")) ELSE None
  ELSE Some(Response("Not Found", "404"))

(* the Response handler returns *)
handler(req) ==
  IF req.path = "/" /\ req.method = "GET"
  THEN Some(Response("Domain Checker Bot is running!", "200"))
  ELSE IF req.path = "/" /\ req.method = "POST"
  THEN IF req.body = "unparseable"
       THEN Some(Response("Bad Request", "400"))
       ELSE Some(Response("OK", "200"))
  ELSE Some(Response("Not Found", "404"))

(* handleWebhook(update) is called, and not awaited *)
callsHandleWebhook(req) ==
  req.path = "/" /\ req.method = "POST" /\ req.body # "unparseable"

(* A request arrives: handler runs to its return; handleWebhook, when      *)
(* called, has run up to its first await on the provider                   *)
HdRequest ==
  /\ hook.pc = "idle"
  /\ started < MaxCalls
  /\ \E req \in Requests :
       /\ api' = HttpExchange(req, handler(req), FALSE)
       /\ IF ~callsHandleWebhook(req) THEN hook' = hook
          ELSE IF req.body = "null" THEN hook' = Ended(IdleHook, <<>>, "threw")
          ELSE \E text \in {None} \cup { Some(t) : t \in Texts } :
                 \E username \in Usernames : \E allow \in AllowValues :
                   hook' = handleWebhook(text, username, allow)
  /\ UNCHANGED <<now, ticks, kvRateLimit, kvTlds, streak, lapsed, wiped, lastSet, inv, started>>

(* .catch((error) => console.error(...)) of the promise of handleWebhook *)
HdCatch ==
  /\ hook.pc = "done"
  /\ hook.outcome = "threw"
  /\ ~api.logged
  /\ api' = [api EXCEPT !.logged = TRUE]
  /\ UNCHANGED <<now, ticks, kvRateLimit, kvTlds, streak, lapsed, wiped, lastSet, inv, started, hook>>

(* the promise of handleWebhook is settled and the exchange is over *)
HdSettle ==
  /\ hook.pc = "done"
  /\ hook.outcome = "threw" => api.logged
  /\ hook' = IdleHook
  /\ inv' = [inv EXCEPT ![1] = IdleInv]
  /\ api' = ApiCall("none", "domainr", 0, None, None, 0)
  /\ UNCHANGED <<now, ticks, kvRateLimit, kvTlds, streak, lapsed, wiped, lastSet, started>>

HandlerNext ==
  \/ HdRequest
  \/ \E ok \in BOOLEAN : WhReact(ok)
  \/ WhCheck
  \/ WhPorkbun
  \/ WhReply
  \/ HdCatch
  \/ HdSettle

SpecHandler == Init /\ [][HandlerNext]_vars

-----------------------------------------------------------------------------
(* Claims on the clients *)

(* The kinds of upstream answer that are failures *)
FailureKinds == {"throw", "http", "unparseable", "error", "missing"}

(* C1: checkAvailability of each of the three clients ends by returning a  *)
(* result for the domain it was called with, whatever the upstream         *)
(* answered and whatever the store held, and never by throwing; when the   *)
(* last upstream answer it handled was a failure (a network exception, a   *)
(* non-2xx status, a malformed body, a provider error, a missing payload)  *)
(* the result has available = false and the error field set.               *)
C1_Total ==
  \A i \in Procs :
    inv[i].pc = "done" =>
      /\ inv[i].outcome = "returned"
      /\ inv[i].result.domain = inv[i].domain
      /\ inv[i].result.provider = inv[i].provider
      /\ inv[i].last \in FailureKinds =>
            /\ inv[i].result.available = JsFalse
            /\ inv[i].result.error # None

(* The Domainr client returned after fetch rejected on all four attempts *)
C1_Witness ==
  /\ inv[1].pc = "done"
  /\ inv[1].provider = "domainr"
  /\ inv[1].hist = <<"throw", "throw", "throw", "throw">>
  /\ inv[1].outcome = "returned"
  /\ inv[1].result.error = Some(Err("fetch failed", <<>>))

(* 429 on the first j attempts and 200 on attempt j + 1 *)
RateLimitedThenOk(j) == [k \in 1..(j + 1) |-> IF k <= j THEN "429" ELSE "200"]

(* C2: an invocation of the Domainr client that started with no stored     *)
(* backoff and was answered 429 on its first j attempts (0 <= j <= 3) and  *)
(* 200 on attempt j + 1 made exactly j + 1 requests, returned a result     *)
(* that carries no HTTP error (none at all when the body has a known       *)
(* status), and the rate-limit state of the provider is absent when it     *)
(* has returned.                                                           *)
C2_RetryThenSuccess ==
  \A i \in Procs : \A j \in 0..3 :
    (/\ inv[i].pc = "done"
     /\ inv[i].provider = "domainr"
     /\ inv[i].clean
     /\ inv[i].hist = RateLimitedThenOk(j)) =>
      /\ inv[i].calls.status = j + 1
      /\ inv[i].outcome = "returned"
      /\ inv[i].last # "http"
      /\ \A e \in {inv[i].result.error} : e # None => Val(e).msg # "HTTP "
      /\ inv[i].body = Some(<<"inactive">>) =>
            (inv[i].result.available = JsTrue /\ inv[i].result.error = None)
      /\ kvRateLimit["domainr"] = None

(* 429, 429, 200: three requests, an available domain, a cleared guard *)
C2_Witness ==
  /\ inv[1].pc = "done"
  /\ inv[1].clean
  /\ inv[1].hist = <<"429", "429", "200">>
  /\ inv[1].calls.status = 3
  /\ inv[1].result.available = JsTrue
  /\ kvRateLimit["domainr"] = None
  /\ now >= 3000

(* The positions of an invocation inside makeRequest *)
InMakeRequest(i) ==
  inv[i].pc \in {"loop", "gotState", "sleep", "inflight", "rfGet", "rfSet", "rsDel"}

(* C3: a call of makeRequest issues at most 4 requests whatever the        *)
(* sequence of upstream outcomes, it throws only after its fourth failed   *)
(* attempt, and it always ends: it returns a response to checkAvailability *)
(* or throws.                                                              *)
C3_BoundedRetries ==
  /\ [](\A i \in Procs :
          /\ inv[i].calls.status <= 4
          /\ Len(inv[i].hist) <= 4
          /\ (inv[i].pc = "done" /\ inv[i].last = "throw") => inv[i].calls.status = 4)
  /\ (InMakeRequest(1) ~> inv[1].pc \in {"parse", "done"})

(* The fourth request was answered 429 and the response was returned *)
C3_Witness ==
  /\ inv[1].pc = "parse"
  /\ inv[1].resp = "429"
  /\ inv[1].calls.status = 4
  /\ inv[1].hist = <<"throw", "429", "throw", "429">>

(* The list getSupportedTLDs returned is not empty and lacks the TLD *)
UnsupportedTld(i) ==
  /\ inv[i].pc = "done"
  /\ inv[i].provider \in {"porkbun", "cloudflare"}
  /\ inv[i].supported # <<>>
  /\ \A k \in 1..Len(inv[i].supported) : inv[i].supported[k] # extractTLD(inv[i].domain)

(* C7: when the supported list of Porkbun or Cloudflare is not empty and   *)
(* does not hold the TLD of the domain, checkAvailability returns          *)
(* available = false with the error "TLD not supported by <provider>" and  *)
(* has made no request to the availability endpoint nor to the pricing     *)
(* endpoint of the domain.                                                 *)
C7_UnsupportedTld ==
  \A i \in Procs :
    UnsupportedTld(i) =>
      /\ inv[i].outcome = "returned"
      /\ inv[i].result.available = JsFalse
      /\ inv[i].result.error =
           Some(Err(IF inv[i].provider = "porkbun" THEN "TLD not supported by Porkbun"
                                                    ELSE "TLD not supported by Cloudflare", <<>>))
      /\ inv[i].calls.avail = 0
      /\ inv[i].calls.pricing = 0

(* example.co.uk was refused by Porkbun on a cached list that holds com only *)
C7_Witness ==
  /\ UnsupportedTld(1)
  /\ inv[1].provider = "porkbun"
  /\ inv[1].domain = <<"example", "co", "uk">>
  /\ inv[1].supported = << <<"com">> >>
  /\ inv[1].calls.listing = 0

(* The documented precedence, on the keys the known map lists *)
KnownTrue == { <<"inactive">>, <<"undelegated">>, <<"undelegated", Space, "inactive">> }
KnownFalse ==
  { <<"active">>, <<"claimed">>, <<"parked">>, <<"premium">>, <<"reserved">>, <<"expiring">> }
Known == KnownTrue \cup KnownFalse
KnownValue(key) == IF key \in KnownTrue THEN JsTrue ELSE JsFalse

(* the words of a lower-cased status, left to right *)
WordsOf(key) == split(key)

HasKnownWord(key) == \E k \in 1..Len(WordsOf(key)) : WordsOf(key)[k] \in Known

FirstKnownWord(key) ==
  WordsOf(key)[CHOOSE k \in 1..Len(WordsOf(key)) :
                 /\ WordsOf(key)[k] \in Known
                 /\ \A m \in 1..(k - 1) : WordsOf(key)[m] \notin Known]

(* The Domainr client returned on a body whose status string is st *)
ResolvedStatus(i, st) ==
  /\ inv[i].pc = "done"
  /\ inv[i].provider = "domainr"
  /\ inv[i].body = Some(st)

(* C8: for every status string, the availability is (a) the mapped value   *)
(* of the whole lower-cased string when it is a key of the known map,      *)
(* (b) otherwise the mapped value of the first whitespace-separated word   *)
(* that is a key, (c) otherwise the status is unknown (available = false   *)
(* with an error). The known map is true for inactive, undelegated and     *)
(* "undelegated inactive", false for active, claimed, parked, premium,     *)
(* reserved and expiring.                                                  *)
C8_Precedence ==
  \A i \in Procs : \A st \in StatusStrings :
    ResolvedStatus(i, st) =>
      LET key == statusKey(st)
          res == inv[i].result
      IN  IF key \in Known
          THEN res.available = KnownValue(key) /\ res.error = None
          ELSE IF HasKnownWord(key)
          THEN res.available = KnownValue(FirstKnownWord(key)) /\ res.error = None
          ELSE res.available = JsFalse /\ res.error # None

(* C9: for every status string that is not a key of the known map and has  *)
(* no word that is one, checkAvailability returns available = false with   *)
(* the error "Unknown status: " followed by the raw status string.         *)
C9_UnknownStatus ==
  \A i \in Procs : \A st \in StatusStrings :
    (/\ ResolvedStatus(i, st)
     /\ statusKey(st) \notin Known
     /\ ~HasKnownWord(statusKey(st))) =>
      /\ inv[i].outcome = "returned"
      /\ inv[i].result.available = JsFalse
      /\ inv[i].result.error = Some(Err("Unknown status: ", st))

(* The message of the result for a TLD the provider does not list *)
TldNotSupported(provider) ==
  Err(IF provider = "porkbun" THEN "TLD not supported by Porkbun"
                              ELSE "TLD not supported by Cloudflare", <<>>)

(* C11: getSupportedTLDs of Porkbun and Cloudflare never throws: when the  *)
(* listing request fails (network exception, non-2xx status, provider      *)
(* error, missing or unparseable payload) it returns the empty list, the   *)
(* cache is not written, and checkAvailability goes on with that list (it  *)
(* answers "TLD not supported", not the listing failure).                  *)
C11_ListingNeverThrows ==
  [][\A i \in Procs :
       (/\ inv[i].pc = "listInflight"
        /\ inv'[i].pc # "listInflight"
        /\ inv'[i].last \in FailureKinds) =>
         /\ inv'[i].supported = <<>>
         /\ inv'[i].pc = "done"
         /\ inv'[i].outcome = "returned"
         /\ inv'[i].result.error = Some(TldNotSupported(inv[i].provider))
         /\ inv'[i].calls = inv[i].calls
         /\ kvTlds' = kvTlds]_vars

(* Cloudflare answered /tlds with a body that is not JSON *)
C11_Witness ==
  /\ inv[1].pc = "done"
  /\ inv[1].provider = "cloudflare"
  /\ inv[1].calls.listing = 1
  /\ inv[1].last = "unparseable"
  /\ inv[1].supported = <<>>
  /\ inv[1].outcome = "returned"

(* C16: no result of the Domainr checkAvailability carries pricing,        *)
(* whatever the upstream answered, an available domain included.           *)
C16_DomainrNoPricing ==
  \A i \in Procs :
    (inv[i].pc = "done" /\ inv[i].provider = "domainr") => inv[i].result.pricing = None

(* An available domain, answered after a 429 *)
C16_Witness ==
  /\ inv[1].pc = "done"
  /\ inv[1].provider = "domainr"
  /\ inv[1].hist = <<"429", "200">>
  /\ inv[1].result.available = JsTrue
  /\ inv[1].result.pricing = None

(* C17: getSupportedTLDs of the Domainr client returns the empty list and  *)
(* touches neither the network nor the cache; checkAvailability accepts    *)
(* every TLD: it sends the status request for every domain, makes no       *)
(* listing request and never answers "TLD not supported".                  *)
C17_DomainrAllTlds ==
  /\ api.op = "getSupportedTLDs" => api.tlds = Some(<<>>)
  /\ \A p \in Providers : kvTlds[p] = None
  /\ \A i \in Procs :
       inv[i].provider = "domainr" =>
         /\ inv[i].calls.listing = 0
         /\ inv[i].pc = "done" =>
               /\ inv[i].calls.status >= 1
               /\ inv[i].supported = <<>>
               /\ \A e \in {inv[i].result.error} :
                     e # None => Val(e).msg \notin {"TLD not supported by Domainr",
                                                    "TLD not supported by Porkbun",
                                                    "TLD not supported by Cloudflare"}

(* example.club was looked up and found available, after getSupportedTLDs  *)
(* had returned the empty list                                             *)
C17_Witness ==
  /\ api.op = "getSupportedTLDs"
  /\ api.tlds = Some(<<>>)
  /\ inv[1].pc = "done"
  /\ inv[1].provider = "domainr"
  /\ inv[1].domain = <<"example", "club">>
  /\ inv[1].calls.status = 1
  /\ inv[1].result.available = JsTrue

(* Porkbun answered domain/checkDomain with an available domain *)
PorkbunAvailable(i) ==
  /\ inv[i].pc = "done"
  /\ inv[i].provider = "porkbun"
  /\ inv[i].answer # None
  /\ inv[i].result.available = JsTrue

(* C18: in a Porkbun result with available = true, pricing.firstYear is    *)
(* present only if firstYearPromo is set and the promotional price differs *)
(* from the regular price; otherwise it is omitted.                        *)
C18_FirstYearOnlyWhenCheaper ==
  \A i \in Procs :
    PorkbunAvailable(i) =>
      LET a == Val(inv[i].answer)
          firstYear == Val(inv[i].result.pricing).firstYear
      IN  firstYear # None => (a.firstYearPromo = "yes" /\ a.price # a.regularPrice)

(* The availability answer of Cloudflare said the domain is available *)
ReportedAvailable(i) ==
  /\ inv[i].answer # None
  /\ Val(inv[i].answer).kind = "data"
  /\ Val(inv[i].answer).available

(* C19: the Cloudflare client asks for the price of a domain only after    *)
(* the availability answer for it reported available = true, and at most   *)
(* once; when the availability answer reports unavailable or is a failure  *)
(* no pricing request is made and the result has no pricing.               *)
C19_PricingAfterAvailable ==
  \A i \in Procs :
    inv[i].provider = "cloudflare" =>
      /\ inv[i].calls.pricing <= inv[i].calls.avail
      /\ inv[i].calls.pricing <= 1
      /\ inv[i].calls.pricing > 0 => ReportedAvailable(i)
      /\ (inv[i].pc = "done" /\ ~ReportedAvailable(i)) =>
            /\ inv[i].calls.pricing = 0
            /\ inv[i].result.pricing = None
            /\ inv[i].result.available = JsFalse

(* An unavailable domain: one availability request, no pricing request *)
C19_Witness ==
  /\ inv[1].pc = "done"
  /\ inv[1].provider = "cloudflare"
  /\ inv[1].answer = Some(CloudflareAvail("data", None, FALSE))
  /\ inv[1].calls.avail = 1
  /\ inv[1].calls.pricing = 0
  /\ inv[1].result.error = None

(* The two-level TLDs the claim names *)
TwoLevelTlds ==
  { <<"co", "uk">>, <<"co", "jp">>, <<"com", "au">>, <<"co", "nz">>, <<"co", "za">> }

(* C20: extractTLD returns the last two labels when the domain has at      *)
(* least three labels and its last two labels are co.uk, co.jp, com.au,    *)
(* co.nz or co.za; for every other domain it returns the last label alone. *)
C20_ExtractTLD ==
  api.op = "extractTLD" =>
    LET d == api.arg
        n == Len(d)
    IN  IF n >= 3 /\ <<d[n - 1], d[n]>> \in TwoLevelTlds
        THEN api.ret = Some(<<d[n - 1], d[n]>>)
        ELSE api.ret = Some(<<d[n]>>)

(* example.co.uk gives co.uk *)
C20_Witness ==
  /\ api.op = "extractTLD"
  /\ api.arg = <<"example", "co", "uk">>
  /\ api.ret = Some(<<"co", "uk">>)

(* a text holds the pieces of another, in order and next to each other *)
Contains(text, pieces) ==
  \E k \in 0..(Len(text) - Len(pieces)) :
    \A m \in 1..Len(pieces) : text[k + m] = pieces[m]

C15_FormatPrice ==
  api.op = "formatResult" =>
    LET r == api.arg
        out == Val(api.ret)
    IN  (r.available = JsTrue /\ r.error = None /\ r.pricing # None) =>
          LET pricing == Val(r.pricing)
              cur == IF pricing.currency = "USD" THEN "$" ELSE pricing.currency
              twoDecimals(c) ==
                <<ToString(c \div 100), ".", ToString((c \div 10) % 10), ToString(c % 10)>>
          IN  /\ Contains(out, <<cur>> \o twoDecimals(pricing.renewal) \o <<" / yr">>)
              /\ Contains(out, <<" first year)">>) <=>
                   (pricing.firstYear # None /\ Val(pricing.firstYear) # pricing.renewal)
              /\ (pricing.firstYear # None /\ Val(pricing.firstYear) # pricing.renewal) =>
                   Contains(out, <<" (", cur>> \o twoDecimals(Val(pricing.firstYear))
                                   \o <<" first year)">>)

-----------------------------------------------------------------------------
(* Claims on the rate-limit guard, under SpecGuard *)

ReturnedState == Val(api.state)
ReturnedDelay == ReturnedState.nextRetryAfter - ReturnedState.lastFailureTime

(* C4 as stated: after k consecutive recordFailure calls with no           *)
(* recordSuccess in between, failureCount = k and the delay is             *)
(* min(1000 * 2^(k-1), 300000). Fails when the entry expired in between.   *)
C4_AsStated ==
  api.op = "recordFailure" =>
    LET k == streak[api.provider]
    IN  /\ ReturnedState.failureCount = k
        /\ ReturnedDelay = Min(1000 * Pow(2, k - 1), 300000)

(* C4 amended: after k consecutive recordFailure calls with no             *)
(* recordSuccess and no expiry of the stored state in between, the state   *)
(* returned and stored has failureCount = k and                            *)
(* nextRetryAfter - lastFailureTime = min(1000 * 2^(k-1), 300000).         *)
C4_BackoffDoublesUntilCapped ==
  (api.op = "recordFailure" /\ ~lapsed[api.provider]) =>
    LET k == streak[api.provider]
    IN  /\ ReturnedState.failureCount = k
        /\ ReturnedDelay = Min(1000 * Pow(2, k - 1), 300000)
        /\ getRateLimitState(kvRateLimit, api.provider) \in {None, api.state}

(* The tenth failure in a row: 512000 is capped to 300000 *)
C4_Witness ==
  /\ api.op = "recordFailure"
  /\ ~lapsed[api.provider]
  /\ streak[api.provider] = 10
  /\ ReturnedState.failureCount = 10
  /\ ReturnedDelay = 300000
  /\ now > 0

(* C5: after recordSuccess(p), whatever failure count it cleared,          *)
(* getWaitTime(p) returns 0 and getRateLimitState(p) returns null, and the *)
(* next recordFailure(p) starts at failureCount 1 with a 1000 ms backoff.  *)
C5_SuccessResets ==
  \A p \in Providers :
    /\ wiped[p] >= 0 =>
          /\ kvRateLimit[p] = None
          /\ (api.provider = p /\ api.op = "getWaitTime") => api.ms = 0
          /\ (api.provider = p /\ api.op = "getRateLimitState") => api.state = None
    /\ (api.provider = p /\ api.op = "recordFailure" /\ streak[p] = 1) =>
          /\ ReturnedState.failureCount = 1
          /\ ReturnedDelay = 1000

(* getWaitTime answered 0 after a recordSuccess that cleared three or more failures *)
C5_Witness ==
  /\ wiped["domainr"] >= 3
  /\ api.provider = "domainr"
  /\ api.op = "getWaitTime"
  /\ api.ms = 0

(* C6: getWaitTime(p) returns max(0, nextRetryAfter - now) when a state is *)
(* stored and 0 when none is; never a negative number; and the call leaves *)
(* the stored state as it was.                                             *)
C6_WaitTime ==
  [][(api'.op = "getWaitTime" /\ api' # api) =>
       LET entry == kvRateLimit[api'.provider]
       IN  /\ kvRateLimit' = kvRateLimit
           /\ api'.ms >= 0
           /\ entry = None => api'.ms = 0
           /\ entry # None =>
                 LET left == Val(entry).value.nextRetryAfter - now
                 IN  api'.ms = (IF left > 0 THEN left ELSE 0)]_vars

(* getWaitTime answered 0 for a stored state whose backoff is over, and a  *)
(* positive wait was answered before                                       *)
C6_Witness ==
  /\ api.op = "getWaitTime"
  /\ api.ms = 0
  /\ kvRateLimit[api.provider] # None
  /\ Val(kvRateLimit[api.provider]).value.nextRetryAfter < now

-----------------------------------------------------------------------------
(* Claims on the TLD cache, under SpecCache *)

(* C10: getCachedTLDs(p) after setCachedTLDs(p, X) returns exactly X, the  *)
(* list of the latest set, while less than 24 hours have passed since that *)
(* set, and absent once 24 hours have passed (and when nothing was set).   *)
C10_CacheRoundTrip ==
  [][(api'.op = "getCachedTLDs" /\ api' # api) =>
       LET last == lastSet[api'.provider]
       IN  api'.tlds = (IF last # None /\ now < Val(last).at + 24 * 60 * 60 * 1000
                        THEN Some(Val(last).tlds)
                        ELSE None)]_vars

(* A list read back some time after it was set *)
C10_Witness ==
  /\ api.op = "getCachedTLDs"
  /\ api.provider = "porkbun"
  /\ api.tlds = Some(<< <<"com">>, <<"co", "uk">> >>)
  /\ lastSet["porkbun"] # None
  /\ Val(lastSet["porkbun"]).at = 500
  /\ now > 500

-----------------------------------------------------------------------------
(* Claims on the dispatcher *)

(* handleWebhook is handling, or has handled, an update *)
Handling == hook.pc # "idle"

(* the text of the message is not a valid domain name *)
InvalidText == hook.text # None /\ ~isValidDomain(Val(hook.text))

(* the message is the /start command *)
IsStart == hook.text # None /\ trim(Val(hook.text)) = <<"/start">>

(* message.text is missing or the empty string *)
NoText == hook.text = None \/ Val(hook.text) = <<>>

(* ALLOW_HANDLES is unset or the empty string *)
NoAllowHandles == hook.allow = None \/ Val(hook.allow) = <<"">>

(* the sender has a username that is, whatever its case, an entry of       *)
(* ALLOW_HANDLES                                                           *)
Allowlisted ==
  /\ hook.username # None
  /\ hook.allow # None
  /\ \E k \in 1..Len(Val(hook.allow)) :
       toLowerCase(trimHandle(Val(hook.allow)[k])) = toLowerCase(Val(hook.username))

(* checkAvailability was not invoked: no request, no store access *)
NoProviderCall == inv[1] = IdleInv

(* one of the texts sent holds the pieces *)
SentContains(pieces) == \E k \in 1..Len(hook.sent) : Contains(hook.sent[k], pieces)

(* C12 as stated: a message whose trimmed text is not a valid domain name  *)
(* is rejected before any provider call, checkAvailability is never        *)
(* invoked for it, and a reply is sent that contains "not a valid domain   *)
(* name".                                                                  *)
C12_InvalidRejected ==
  (Handling /\ InvalidText) =>
    /\ hook.pc = "done"
    /\ NoProviderCall
    /\ SentContains(<<"not a valid domain name">>)

(* C12, amended: a message whose trimmed text is not a valid domain name   *)
(* never reaches checkAvailability. The reply is the "not a valid domain   *)
(* name" error, and nothing else, when the text is not empty, is not       *)
(* /start, ALLOW_HANDLES is set and the sender is allowlisted; it is the   *)
(* welcome message for /start, the not-enabled message for a sender that   *)
(* is not allowlisted, and there is no reply for an empty text or, with    *)
(* handleWebhook throwing, when ALLOW_HANDLES is not set.                  *)
C12_InvalidRejectedWhenAllowed ==
  (Handling /\ InvalidText) =>
    /\ hook.pc = "done"
    /\ NoProviderCall
    /\ IF NoText THEN hook.sent = <<>> /\ hook.outcome = "returned"
       ELSE IF IsStart THEN hook.sent = <<WelcomeMessage>> /\ hook.outcome = "returned"
       ELSE IF NoAllowHandles THEN hook.sent = <<>> /\ hook.outcome = "threw"
       ELSE IF ~Allowlisted
       THEN hook.sent = <<NotEnabledMessage>> /\ hook.outcome = "returned"
       ELSE /\ hook.sent = <<InvalidMessage(trim(Val(hook.text)))>>
            /\ SentContains(<<"not a valid domain name">>)
            /\ hook.outcome = "returned"

(* Alice, allowlisted as "Alice ", sent " -bad.Com" and got the error *)
C12_Witness ==
  /\ hook.pc = "done"
  /\ hook.text = Some(<<Space, "-bad", Dot, "Com">>)
  /\ hook.username = Some("Alice")
  /\ hook.allow = Some(<<" Bob", "Alice ">>)
  /\ hook.sent = <<InvalidMessage(<<"-bad", Dot, "Com">>)>>
  /\ NoProviderCall

(* C13 as stated: for a message other than /start whose sender has no      *)
(* username, or a username that is not in ALLOW_HANDLES whatever its case, *)
(* handleWebhook never invokes checkAvailability and replies with the      *)
(* not-enabled message and nothing else.                                   *)
C13_NotEnabled ==
  (Handling /\ ~IsStart /\ ~Allowlisted) =>
    /\ hook.pc = "done"
    /\ NoProviderCall
    /\ hook.sent = <<NotEnabledMessage>>

(* C13, amended: for a message other than /start whose sender is not       *)
(* allowlisted, handleWebhook never invokes checkAvailability; when the    *)
(* message has a non-empty text and ALLOW_HANDLES is set, it replies with  *)
(* the not-enabled message and nothing else; a message without text gets   *)
(* no reply, and with ALLOW_HANDLES not set handleWebhook throws without   *)
(* replying.                                                               *)
C13_NotEnabledWhenConfigured ==
  (Handling /\ ~IsStart /\ ~Allowlisted) =>
    /\ hook.pc = "done"
    /\ NoProviderCall
    /\ IF NoText THEN hook.sent = <<>> /\ hook.outcome = "returned"
       ELSE IF NoAllowHandles THEN hook.sent = <<>> /\ hook.outcome = "threw"
       ELSE hook.sent = <<NotEnabledMessage>> /\ hook.outcome = "returned"

(* mallory, not in " Bob,Alice ", sent the valid x.Com and got the         *)
(* not-enabled message                                                     *)
C13_Witness ==
  /\ hook.pc = "done"
  /\ hook.text = Some(<<"x", Dot, "Com">>)
  /\ hook.username = Some("mallory")
  /\ hook.allow = Some(<<" Bob", "Alice ">>)
  /\ hook.sent = <<NotEnabledMessage>>
  /\ NoProviderCall

-----------------------------------------------------------------------------
(* Claims on the retry wrapper of the Domainr client *)

(* how many attempts of the invocation ended with the outcome *)
Outcomes(i, o) == Cardinality({ k \in 1..Len(inv[i].hist) : inv[i].hist[k] = o })

(* how many calls of recordFailure the invocation made for the outcome, a  *)
(* call in progress included                                               *)
RecordFailures(i, o) ==
  Cardinality({ k \in 1..Len(inv[i].recorded) : inv[i].recorded[k].from = o })
    + (IF inv[i].pc \in {"rfGet", "rfSet"} /\ inv[i].rfFrom = o THEN 1 ELSE 0)

(* the invocation ended and the outcome of its last attempt was o *)
EndedOn(i, o) ==
  /\ inv[i].pc = "done"
  /\ inv[i].provider = "domainr"
  /\ inv[i].hist # <<>>
  /\ inv[i].hist[Len(inv[i].hist)] = o

FourTimes(o) == <<o, o, o, o>>

(* the part of C21 on the calls of recordFailure and on the retries *)
C21_Retries(i) ==
  /\ RecordFailures(i, "429") = Outcomes(i, "429")
  /\ EndedOn(i, "429") => Len(inv[i].hist) = 4
  /\ (inv[i].pc = "parse" /\ inv[i].resp = "429") => Len(inv[i].hist) = 4
  /\ EndedOn(i, "429") =>
       /\ inv[i].outcome = "returned"
       /\ inv[i].answer # None
       /\ Val(inv[i].answer).kind = "http"
       /\ inv[i].result.available = JsFalse

(* C21 as stated: every 429 answer causes exactly one call of              *)
(* recordFailure; a 429 on attempts 1 to 3 is retried; a 429 on the fourth *)
(* attempt is returned as a response to checkAvailability, which returns   *)
(* available = false with the error "HTTP 429"; after four 429 answers in  *)
(* a row from no stored state the failureCount stored is 4.                *)
C21_RateLimited ==
  \A i \in Procs :
    /\ C21_Retries(i)
    /\ EndedOn(i, "429") => inv[i].result.error = Some(Err("HTTP ", <<"429">>))
    /\ (inv[i].clean /\ inv[i].hist = FourTimes("429") /\ Len(inv[i].recorded) = 4) =>
         inv[i].recorded[4].count = 4

(* C21, amended: as C21, but the error is "HTTP 429" when the body of the  *)
(* response can be read (when response.text() rejects, the error is that   *)
(* rejection), and the failureCount stored after four 429 answers from no  *)
(* stored state is 4 when each recordFailure read the store less than      *)
(* 600000 ms after the previous one wrote it (else the entry has expired   *)
(* and the count restarts at 1).                                           *)
C21_RateLimitedReadable ==
  \A i \in Procs :
    /\ C21_Retries(i)
    /\ EndedOn(i, "429") =>
         /\ inv[i].result.error # None
         /\ ~Val(inv[i].answer).textThrows =>
              inv[i].result.error = Some(Err("HTTP ", <<"429">>))
    /\ (inv[i].clean /\ inv[i].hist = FourTimes("429") /\ Len(inv[i].recorded) = 4) =>
         /\ (\A k \in 1..4 : ~inv[i].recorded[k].late) => inv[i].recorded[4].count = 4
         /\ \A k \in 1..4 : inv[i].recorded[k].late => inv[i].recorded[k].count = 1

(* four 429 answers from no stored state: four calls of recordFailure, the *)
(* counts 1 to 4, the error HTTP 429                                       *)
C21_Witness ==
  /\ inv[1].pc = "done"
  /\ inv[1].clean
  /\ inv[1].hist = FourTimes("429")
  /\ Len(inv[1].recorded) = 4
  /\ \A k \in 1..4 : inv[1].recorded[k] = [from |-> "429", count |-> k, late |-> FALSE]
  /\ inv[1].last = "http"
  /\ inv[1].result.available = JsFalse
  /\ inv[1].result.error = Some(Err("HTTP ", <<"429">>))

(* C22: every attempt of the Domainr wrapper whose fetch rejects causes    *)
(* exactly one call of recordFailure; the wrapper retries while attempts   *)
(* remain and throws only once the fourth attempt has rejected; the error  *)
(* does not leave checkAvailability, which returns available = false with  *)
(* the message of the error.                                               *)
C22_NetworkFailures ==
  \A i \in Procs :
    /\ RecordFailures(i, "throw") = Outcomes(i, "throw")
    /\ (inv[i].pc = "parse" /\ inv[i].hist # <<>>) => inv[i].hist[Len(inv[i].hist)] # "throw"
    /\ EndedOn(i, "throw") =>
         /\ Len(inv[i].hist) = 4
         /\ inv[i].calls.status = 4
         /\ inv[i].answer = None
         /\ inv[i].outcome = "returned"
         /\ inv[i].result.available = JsFalse
         /\ inv[i].result.error = Some(Err("fetch failed", <<>>))

(* 429, then three rejected fetches: four calls of recordFailure, the last *)
(* three for the rejections, and the error of the last one returned        *)
C22_Witness ==
  /\ inv[1].pc = "done"
  /\ inv[1].clean
  /\ inv[1].hist = <<"429", "throw", "throw", "throw">>
  /\ Len(inv[1].recorded) = 4
  /\ \A k \in 2..4 : inv[1].recorded[k].from = "throw"
  /\ inv[1].outcome = "returned"
  /\ inv[1].result.error = Some(Err("fetch failed", <<>>))

(* the step issues an HTTP request of invocation i *)
Issues(i) == inv[i].pc # "inflight" /\ inv'[i].pc = "inflight"

(* C23: an invocation of the Domainr wrapper running alone reads the       *)
(* stored state (getWaitTime) before every attempt, the first included,    *)
(* and issues the request only once the nextRetryAfter it read has passed, *)
(* after a timer of that duration when it had not; the request that        *)
(* follows a 429 is issued no earlier than min(1000 * 2^(c-1), 300000) ms  *)
(* after the failure that set failureCount to c.                           *)
C23_WaitsBeforeEveryAttempt ==
  [][\A i \in Procs :
       /\ (inv[i].pc = "loop" /\ inv'[i].pc # "loop" /\ inv[i].attempt <= 3) =>
            /\ inv'[i].pc = "gotState"
            /\ inv'[i].state = (IF kvRateLimit["domainr"] = None THEN None
                                ELSE Some(Val(kvRateLimit["domainr"]).value))
       /\ (inv[i].pc = "gotState" /\ inv'[i].pc = "sleep") =>
            /\ inv[i].state # None
            /\ Val(inv[i].state).nextRetryAfter > now
            /\ inv'[i].wakeAt = Val(inv[i].state).nextRetryAfter
       /\ Issues(i) =>
            /\ inv[i].pc \in {"gotState", "sleep"}
            /\ inv[i].pc = "sleep" => now' >= inv[i].wakeAt
            /\ inv[i].state # None => now' >= Val(inv[i].state).nextRetryAfter
            /\ inv[i].rfFrom = "429" =>
                 LET c == inv[i].recorded[Len(inv[i].recorded)].count
                     backoff == IF 1000 * (2 ^ (c - 1)) < 300000 THEN 1000 * (2 ^ (c - 1))
                                ELSE 300000
                 IN  now' >= inv[i].rfAt + backoff]_vars

(* after 429, 429 from no stored state the third request is issued 2000 ms *)
(* after the second failure                                                *)
C23_Witness ==
  /\ inv[1].pc = "inflight"
  /\ inv[1].clean
  /\ inv[1].hist = <<"429", "429">>
  /\ inv[1].calls.status = 3
  /\ inv[1].recorded[2].count = 2
  /\ now = inv[1].rfAt + 2000

(* the step hands invocation i a response that is neither 2xx nor 429 *)
GetsOtherStatus(i) ==
  /\ inv[i].pc = "inflight"
  /\ inv'[i].hist # inv[i].hist
  /\ inv'[i].hist[Len(inv'[i].hist)] \notin {"200", "429", "throw"}

(* C32: in the Domainr retry wrapper a response that is neither 2xx nor    *)
(* 429 is returned at once, without a retry, and leaves the stored         *)
(* rate-limit state as it is: neither recordFailure nor recordSuccess is   *)
(* called, so what earlier 429 attempts of the same call recorded stays    *)
(* stored.                                                                 *)
C32_OtherStatusReturned ==
  /\ [][\A i \in Procs :
          /\ GetsOtherStatus(i) =>
               /\ inv'[i].pc = "parse"
               /\ inv'[i].resp = inv'[i].hist[Len(inv'[i].hist)]
               /\ inv'[i].recorded = inv[i].recorded
               /\ inv'[i].calls = inv[i].calls
               /\ kvRateLimit' = kvRateLimit
          /\ (inv[i].pc = "parse" /\ inv[i].resp \notin {"200", "429"}
                /\ inv'[i] # inv[i]) =>
               /\ inv'[i].pc = "done"
               /\ inv'[i].outcome = "returned"
               /\ inv'[i].result.available = JsFalse
               /\ inv'[i].result.error # None
               /\ inv'[i].hist = inv[i].hist
               /\ inv'[i].recorded = inv[i].recorded
               /\ inv'[i].calls = inv[i].calls
               /\ kvRateLimit' = kvRateLimit]_vars
  /\ [](\A i \in Procs :
          /\ RecordFailures(i, "500") = 0
          /\ \A k \in 1..Len(inv[i].hist) :
               inv[i].hist[k] \notin {"200", "429", "throw"} => k = Len(inv[i].hist)
          /\ (EndedOn(i, "500") /\ inv[i].recorded # <<>>
                /\ kvRateLimit["domainr"] # None) =>
               Val(kvRateLimit["domainr"]).value.failureCount
                 = inv[i].recorded[Len(inv[i].recorded)].count)

(* 429, 429, 500: the third response is returned, three requests were      *)
(* made, and the two failures recorded are still stored                    *)
C32_Witness ==
  /\ inv[1].pc = "done"
  /\ inv[1].clean
  /\ inv[1].hist = <<"429", "429", "500">>
  /\ inv[1].calls.status = 3
  /\ Len(inv[1].recorded) = 2
  /\ kvRateLimit["domainr"] # None
  /\ Val(kvRateLimit["domainr"]).value.failureCount = 2
  /\ inv[1].result.error = Some(Err("HTTP ", <<"500">>))

-----------------------------------------------------------------------------
(* Claims on the TLD lists of the registrar clients *)

Registrars == {"porkbun", "cloudflare"}

(* the step is the one in which getSupportedTLDs of invocation i gets the  *)
(* answer of getCachedTLDs                                                 *)
ReadsCache(i) == inv[i].pc = "cacheGet" /\ inv'[i].pc # "cacheGet"

(* the step is the one in which getSupportedTLDs of invocation i gets the  *)
(* answer of the listing endpoint                                          *)
GetsListing(i) == inv[i].pc = "listInflight" /\ inv'[i].pc # "listInflight"

(* C24: getSupportedTLDs of Porkbun and Cloudflare is cache-first. With an *)
(* entry in the cache of the provider that entry is returned, no request   *)
(* is made to the listing endpoint and the cache is left as it is; on a    *)
(* miss the listing endpoint is called once, and the list extracted from   *)
(* its answer is stored under the key of the provider, with the other      *)
(* entries untouched, and returned; a listing request is never made while  *)
(* the cache holds an entry.                                               *)
C24_CacheFirst ==
  [][\A i \in Procs :
       LET p == inv[i].provider
       IN  /\ (ReadsCache(i) /\ kvTlds[p] # None) =>
                /\ inv'[i].supported = Val(kvTlds[p]).value
                /\ inv'[i].calls.listing = 0
                /\ inv'[i].pc # "listInflight"
                /\ kvTlds' = kvTlds
           /\ (ReadsCache(i) /\ kvTlds[p] = None) =>
                /\ inv'[i].pc = "listInflight"
                /\ inv'[i].calls.listing = 1
                /\ kvTlds' = kvTlds
           /\ (GetsListing(i) /\ inv'[i].last = "data") =>
                /\ kvTlds'[p] # None
                /\ Val(kvTlds'[p]).value = inv'[i].supported
                /\ Val(kvTlds'[p]).expireAt > now
                /\ inv'[i].calls.listing = 1
                /\ \A q \in Providers \ {p} : kvTlds'[q] = kvTlds[q]
           /\ (inv[i].calls.listing = 0 /\ inv'[i].calls.listing > 0) =>
                (p \in Registrars /\ kvTlds[p] = None)]_vars

(* the second call for Cloudflare, after the first one cached the list of  *)
(* /tlds, made no listing request and got the cached list                  *)
C24_Witness ==
  /\ inv[1].pc = "done"
  /\ inv[1].provider = "cloudflare"
  /\ started = 2
  /\ inv[1].calls.listing = 0
  /\ kvTlds["cloudflare"] # None
  /\ inv[1].supported = << <<"com">>, <<"co", "uk">> >>
  /\ Val(kvTlds["cloudflare"]).value = inv[1].supported
  /\ kvTlds["porkbun"] = None

(* the call of invocation i ended after its listing request failed *)
ListingFailed(i) ==
  /\ inv[i].pc = "done"
  /\ inv[i].provider \in Registrars
  /\ inv[i].calls.listing = 1
  /\ inv[i].calls.avail = 0
  /\ inv[i].last # "data"

(* the step starts a call of invocation i for the provider of its last one *)
CallsAgain(i) ==
  /\ inv[i].pc = "done"
  /\ inv'[i].pc = "cacheGet"
  /\ inv'[i].provider = inv[i].provider

(* C35: there is no negative caching of the TLD list. A listing request    *)
(* of getSupportedTLDs (Porkbun, Cloudflare) that fails writes nothing to  *)
(* the TLD cache; an entry is written only with the list extracted from a  *)
(* successful answer of the provider's listing endpoint; and the call that *)
(* follows a failure finds no entry and issues the listing request again.  *)
C35_NoNegativeCaching ==
  /\ [][/\ \A i \in Procs :
             LET p == inv[i].provider
             IN  /\ (GetsListing(i) /\ inv'[i].last # "data") =>
                      /\ kvTlds' = kvTlds
                      /\ kvTlds'[p] = None
                      /\ inv'[i].supported = <<>>
                 /\ (ListingFailed(i) /\ CallsAgain(i)) => kvTlds'[p] = None
                 /\ (ReadsCache(i) /\ kvTlds[p] = None) =>
                      /\ inv'[i].pc = "listInflight"
                      /\ inv'[i].calls.listing = 1
        /\ \A q \in Providers :
             (kvTlds'[q] # kvTlds[q] /\ kvTlds'[q] # None) =>
               \E j \in Procs :
                 /\ GetsListing(j)
                 /\ inv[j].provider = q
                 /\ inv'[j].last = "data"
                 /\ Val(kvTlds'[q]).value = inv'[j].supported]_vars
  /\ [](\A i \in Procs : ListingFailed(i) => kvTlds[inv[i].provider] = None)

(* pricing/get answered with an HTTP error: the Porkbun call ended on the  *)
(* empty list and the cache of Porkbun holds no entry                      *)
C35_Witness ==
  /\ ListingFailed(1)
  /\ inv[1].provider = "porkbun"
  /\ inv[1].last = "http"
  /\ inv[1].supported = <<>>
  /\ kvTlds["porkbun"] = None
  /\ inv[1].result.error = Some(Err("TLD not supported by Porkbun", <<>>))

(* getSupportedTLDs of invocation i has returned the empty list *)
EmptyList(i) ==
  /\ inv[i].provider \in Registrars
  /\ inv[i].pc \notin {"idle", "cacheGet", "listInflight"}
  /\ inv[i].supported = <<>>

(* C25: when getSupportedTLDs of Porkbun or Cloudflare returned the empty  *)
(* list (a cache miss and a failed listing fetch), checkAvailability       *)
(* returns available = false with the error "TLD not supported by          *)
(* <provider>" for every domain, without a request to the availability or  *)
(* pricing endpoint and without throwing.                                  *)
C25_EmptyListRejectsAll ==
  \A i \in Procs :
    EmptyList(i) =>
      /\ inv[i].pc = "done"
      /\ inv[i].outcome = "returned"
      /\ inv[i].result.domain = inv[i].domain
      /\ inv[i].result.available = JsFalse
      /\ inv[i].result.pricing = None
      /\ inv[i].result.error # None
      /\ Val(inv[i].result.error).msg \in
           {"TLD not supported by Porkbun", "TLD not supported by Cloudflare"}
      /\ inv[i].calls.avail = 0
      /\ inv[i].calls.pricing = 0

(* pricing/get answered 500 on a cache miss: google.com is rejected *)
C25_Witness ==
  /\ inv[1].pc = "done"
  /\ inv[1].provider = "porkbun"
  /\ inv[1].domain = <<"google", "com">>
  /\ inv[1].calls.listing = 1
  /\ inv[1].last = "http"
  /\ inv[1].supported = <<>>
  /\ inv[1].result.available = JsFalse
  /\ inv[1].result.error = Some(Err("TLD not supported by Porkbun", <<>>))
  /\ inv[1].calls.avail = 0
  /\ kvTlds["porkbun"] = None

-----------------------------------------------------------------------------
(* Claims on the scope of the stored state *)

(* C26: the stored state is scoped by provider. While the clock stands     *)
(* still, the rate-limit entry of a provider changes only in a call of     *)
(* recordFailure or recordSuccess for that provider, and its TLD cache     *)
(* entry only in a call of setCachedTLDs for that provider: a call for p   *)
(* leaves the entries of every other provider as they are, and the         *)
(* rate-limit operations leave every TLD cache entry as it is.             *)
C26_ProviderScoped ==
  [][now' = now =>
       \A p \in Providers :
         /\ kvRateLimit'[p] # kvRateLimit[p] =>
              (api'.op \in {"recordFailure", "recordSuccess"} /\ api'.provider = p)
         /\ kvTlds'[p] # kvTlds[p] =>
              (api'.op = "setCachedTLDs" /\ api'.provider = p)]_vars

(* recordFailure("porkbun") was called twice while Cloudflare had one      *)
(* failure stored and both providers a cached list                         *)
C26_Witness ==
  /\ api.op = "recordFailure"
  /\ api.provider = "porkbun"
  /\ storedFailureCount(kvRateLimit, "porkbun") = 2
  /\ storedFailureCount(kvRateLimit, "cloudflare") = 1
  /\ kvTlds["porkbun"] # None
  /\ kvTlds["cloudflare"] # None
  /\ Val(kvTlds["porkbun"]).value # Val(kvTlds["cloudflare"]).value

C27_BackoffOver ==
  /\ kvRateLimit["domainr"] # None
  /\ Val(kvRateLimit["domainr"]).value.failureCount = 9
  /\ now = Val(kvRateLimit["domainr"]).value.lastFailureTime + 300000
  /\ api.op = "getWaitTime"
  /\ api.ms = 0

(* C33: in every reachable state a rate-limit state stored for a provider *)
(* has failureCount >= 1, lastFailureTime <= nextRetryAfter and            *)
(* 1000 <= nextRetryAfter - lastFailureTime <= 300000; hence getWaitTime   *)
(* never returns more than 300000 ms, however many failures were recorded. *)
C33_StoredStateBounds ==
  /\ \A p \in Providers :
       kvRateLimit[p] # None =>
         LET s == Val(kvRateLimit[p]).value
         IN  /\ s.failureCount >= 1
             /\ s.lastFailureTime <= s.nextRetryAfter
             /\ 1000 <= s.nextRetryAfter - s.lastFailureTime
             /\ s.nextRetryAfter - s.lastFailureTime <= 300000
             /\ s.lastFailureTime <= now
  /\ api.op = "getWaitTime" => (0 <= api.ms /\ api.ms <= 300000)

(* after ten failures in a row getWaitTime returns the whole 300000 ms *)
C33_Witness ==
  /\ api.op = "getWaitTime"
  /\ api.provider = "domainr"
  /\ api.ms = 300000
  /\ kvRateLimit["domainr"] # None
  /\ Val(kvRateLimit["domainr"]).value.failureCount = 10
  /\ Val(kvRateLimit["domainr"]).value.nextRetryAfter
       - Val(kvRateLimit["domainr"]).value.lastFailureTime = 300000

-----------------------------------------------------------------------------
(* Claims on the results of all three clients *)

(* C34: for every client and every execution of checkAvailability, the     *)
(* result carries the domain it was called with and the provider name of   *)
(* the client; a result with an error has available = false and no         *)
(* pricing; a result with pricing has available = true and no error.       *)
C34_ResultShape ==
  \A i \in Procs :
    (inv[i].pc = "done" /\ inv[i].outcome = "returned") =>
      /\ inv[i].result.domain = inv[i].domain
      /\ inv[i].result.provider = inv[i].provider
      /\ inv[i].result.error # None =>
           (inv[i].result.available = JsFalse /\ inv[i].result.pricing = None)
      /\ inv[i].result.pricing # None =>
           (inv[i].result.available = JsTrue /\ inv[i].result.error = None)

(* the Cloudflare client, after the availability and the pricing request,  *)
(* returns the domain as available with its prices                         *)
C34_Witness ==
  /\ inv[1].pc = "done"
  /\ inv[1].outcome = "returned"
  /\ inv[1].provider = "cloudflare"
  /\ inv[1].calls.pricing = 1
  /\ inv[1].result.domain = inv[1].domain
  /\ inv[1].result.provider = "cloudflare"
  /\ inv[1].result.pricing # None
  /\ inv[1].result.available = JsTrue
  /\ inv[1].result.error = None

-----------------------------------------------------------------------------
(* Claims on concurrent invocations of the Domainr client *)

(* available and error of a result *)
Content(available, error) == [available |-> available, error |-> error]

(* The content the upstream answers of an invocation call for: the outcome *)
(* of its last attempt and, when that was a response, what                 *)
(* checkAvailability read of it                                            *)
AnswerContent(hist, answer) ==
  LET last == hist[Len(hist)]
  IN  IF last = "throw"
      THEN Content(JsFalse, Some(Err("fetch failed", <<>>)))
      ELSE IF answer = None THEN Content("none", None)
      ELSE IF last # "200"
      THEN Content(JsFalse, Some(IF Val(answer).textThrows
                                 THEN Err("body stream error", <<>>)
                                 ELSE Err("HTTP ", <<last>>)))
      ELSE IF Val(answer).kind = "missing"
      THEN Content(JsFalse, Some(Err("Missing status data from Domainr API", <<>>)))
      ELSE IF Val(answer).status = <<"inactive">>
      THEN Content(JsTrue, None)
      ELSE Content("none", None)

(* C28: races on the rate-limit state never change an availability answer. *)
(* For two invocations of the Domainr checkAvailability whose steps        *)
(* interleave in any order, the available and error fields of each result  *)
(* are a function of the upstream answers that invocation received, and of *)
(* nothing else: not of the stored state, not of the other invocation.     *)
C28_AnswersUnaffectedByRaces ==
  \A i \in Procs :
    (inv[i].pc = "done" /\ inv[i].provider = "domainr") =>
      /\ inv[i].hist # <<>>
      /\ inv[i].outcome = "returned"
      /\ Content(inv[i].result.available, inv[i].result.error)
           = AnswerContent(inv[i].hist, inv[i].answer)

(* both invocations were answered 429 at the same time and one of the two  *)
(* increments was lost; the first one then got 200 with an inactive status *)
(* and reports the domain as available                                     *)
C28_Witness ==
  /\ inv[1].pc = "done"
  /\ inv[2].pc \in {"loop", "gotState", "sleep"}
  /\ inv[1].hist = <<"429", "200">>
  /\ inv[2].hist = <<"429">>
  /\ inv[1].recorded[1].count = 1
  /\ inv[2].recorded[1].count = 1
  /\ inv[1].result.available = JsTrue
  /\ inv[1].result.error = None

(* C29 as stated: under any interleaving of the recordFailure calls of     *)
(* concurrent invocations, with no recordSuccess and no expiry in between, *)
(* the stored failureCount never decreases from one write to the next and  *)
(* a stored backoff is never shortened.                                    *)
C29_MonotonicCount ==
  [][(kvRateLimit["domainr"] # None /\ kvRateLimit'["domainr"] # None) =>
       /\ Val(kvRateLimit'["domainr"]).value.failureCount
            >= Val(kvRateLimit["domainr"]).value.failureCount
       /\ Val(kvRateLimit'["domainr"]).value.nextRetryAfter
            >= Val(kvRateLimit["domainr"]).value.nextRetryAfter]_vars

(* C31 as stated: with concurrent invocations sharing the rate-limit       *)
(* state, no invocation issues its HTTP request while a stored backoff is  *)
(* in effect, that is while the stored nextRetryAfter is later than the    *)
(* clock at the moment the request is sent.                                *)
C31_NoRequestDuringBackoff ==
  [][\A i \in Procs :
       Issues(i) =>
         \/ kvRateLimit'["domainr"] = None
         \/ Val(kvRateLimit'["domainr"]).value.nextRetryAfter <= now']_vars


-----------------------------------------------------------------------------
(* Claims on the HTTP handler *)

(* the status the request calls for *)
StatusFor(req) ==
  IF req.method = "POST" /\ req.path = "/"
  THEN IF req.body = "unparseable" THEN "400" ELSE "200"
  ELSE IF req.method = "GET" /\ req.path = "/" THEN "200"
  ELSE "404"

(* C30: the handler answers a POST / with a parseable body with 200 OK     *)
(* without waiting for handleWebhook: the response is given when           *)
(* handleWebhook has only started, it is a function of the request alone,  *)
(* and it stays what it was however handleWebhook ends; a failure of       *)
(* handleWebhook (a missing ALLOW_HANDLES included) is logged by the catch *)
(* callback and nothing else. An unparseable body yields 400, GET / 200,   *)
(* every other request 404.                                                *)
C30_AckWithoutWaiting ==
  /\ api.op = "handler" =>
       /\ api.ret # None
       /\ Val(api.ret).status = StatusFor(api.arg)
       /\ api.logged => (hook.pc = "done" /\ hook.outcome = "threw")
  /\ hook.pc # "idle" =>
       /\ api.op = "handler"
       /\ api.arg.method = "POST"
       /\ api.arg.path = "/"
       /\ api.arg.body # "unparseable"
       /\ api.ret = Some([text |-> "OK", status |-> "200"])

(* ALLOW_HANDLES is not set: handleWebhook threw, the error was logged and *)
(* the response is the 200 OK given before                                 *)
C30_Witness ==
  /\ hook.pc = "done"
  /\ hook.outcome = "threw"
  /\ hook.text = Some(<<"x", Dot, "Com">>)
  /\ hook.allow = None
  /\ hook.sent = <<>>
  /\ api.op = "handler"
  /\ api.logged
  /\ api.ret = Some([text |-> "OK", status |-> "200"])

(* the response is given while checkAvailability is still in progress *)
C30_InProgress ==
  /\ hook.pc = "check"
  /\ inv[1].pc = "availInflight"
  /\ api.op = "handler"
  /\ api.ret = Some([text |-> "OK", status |-> "200"])

====
